---- MODULE Spec2Model ----
(***************************************************************************)
(* A model of rss_bot: the filter engine (internal/filter), the SQLite     *)
(* store's due-feed query and seen-set (internal/storage), the fetcher's   *)
(* item normalisation (internal/fetcher), the scheduler loop               *)
(* (internal/scheduler) and the commands of the bot that write to table    *)
(* feeds (internal/bot).                                                   *)
(*                                                                         *)
(* Strings are sequences of one-character strings, so that lower-casing,   *)
(* concatenation and substring search are computed and not assumed; where  *)
(* the length of a string in bytes matters, its elements are its bytes.    *)
(* Times are counted in clock ticks (TicksPerSecond ticks to the second);  *)
(* a persisted timestamp is a whole number of seconds, as the layout       *)
(* "2006-01-02T15:04:05Z" keeps no fraction of a second.                   *)
(***************************************************************************)
EXTENDS Integers, Sequences, FiniteSets, TLC

VARIABLES
    \* ---- the store (SQLite tables feeds, filters, seen_items)
    feeds,        \* feed id -> row of table feeds, or NoFeed
    filters,      \* feed id -> the feed's filters in id order
    seen,         \* set of <<feed id, guid>>: table seen_items
    seq,          \* table sqlite_sequence: the largest id given out so far
    \* ---- the environment
    now,          \* the wall clock, in ticks
    cancelled,    \* ctx.Done() is closed
    faults,       \* store calls that failed for a reason of the store's own
    \* ---- the scheduler goroutine (Scheduler.Run)
    pc,           \* where Run / checkAll / processFeed stands
    due,          \* checkAll: the feeds of ListDueFeeds not yet processed
    cur,          \* processFeed: its copy of the feed
    rssItems,     \* processFeed: rssFeed.Items
    matched,      \* processFeed: the items FilterItems returned
    idx,          \* processFeed: position in matched
    sent,         \* feed id -> the SendMessage calls made for it, in order
    \* ---- history of the scheduler, read by the properties only
    hist,
    \* ---- the filter engine applied to one item (filter.Match)
    item,         \* a filter.FeedItem
    flist,        \* a []model.Filter
    verdict,      \* "none", or the result of Match(item, flist)
    \* ---- the bot goroutine (Bot.Run)
    cmd,          \* the handler that runs, and the last reply
    cfg,          \* Config: AllowedUsers
    update        \* the update received last from the updates channel

storeVars == <<feeds, filters, seen, seq>>
envVars   == <<now, cancelled, faults>>
schedVars == <<pc, due, cur, rssItems, matched, idx, sent, hist>>
matchVars == <<item, flist, verdict>>
botVars   == <<cmd, cfg, update>>
vars      == <<feeds, filters, seen, now, cancelled, faults,
               pc, due, cur, rssItems, matched, idx, sent, hist,
               item, flist, verdict, cmd, seq, cfg, update>>

(***************************************************************************)
(* Bounds of the model.                                                    *)
(***************************************************************************)
MaxFilters == 2       \* longest filter list handed to Match
MaxFeeds == 2         \* feeds in the store
MaxInterval == 2      \* largest interval_minutes of a feed of the model
MaxItems == 2         \* most items one fetch returns
MaxFaults == 1        \* store failures injected in one run
MaxClockSteps == 3    \* times the scheduler's clock is advanced
MaxTicks == 3         \* ticks the scheduler's ticker fires
ClockStep == 45       \* ticks by which the scheduler's clock is advanced
TicksPerSecond == 2   \* resolution of the clock below one second

(***************************************************************************)
(* Strings.                                                                *)
(***************************************************************************)
\* strings.ToLower on one character of the model's alphabet
ToLowerChar(c) ==
    CASE c = "A" -> "a"
      [] c = "B" -> "b"
      [] OTHER -> c

\* strings.ToLower
ToLower(s) == [i \in 1..Len(s) |-> ToLowerChar(s[i])]

\* strings.Contains(s, substr)
Contains(s, substr) ==
    \E i \in 0..(Len(s) - Len(substr)) :
        \A j \in 1..Len(substr) : s[i + j] = substr[j]

\* strings.TrimSpace
RECURSIVE TrimLeft(_)
TrimLeft(s) == IF s # <<>> /\ Head(s) = " " THEN TrimLeft(Tail(s)) ELSE s

RECURSIVE TrimRight(_)
TrimRight(s) ==
    IF s # <<>> /\ s[Len(s)] = " " THEN TrimRight(SubSeq(s, 1, Len(s) - 1)) ELSE s

TrimSpace(s) == TrimRight(TrimLeft(s))

\* strings.Fields: the words of s between its runs of white space
RECURSIVE FieldsFrom(_, _, _, _)
FieldsFrom(s, i, word, acc) ==
    IF i > Len(s)
    THEN IF word = <<>> THEN acc ELSE Append(acc, word)
    ELSE IF s[i] = " "
         THEN FieldsFrom(s, i + 1, <<>>, IF word = <<>> THEN acc ELSE Append(acc, word))
         ELSE FieldsFrom(s, i + 1, Append(word, s[i]), acc)

Fields(s) == FieldsFrom(s, 1, <<>>, <<>>)

\* strings.SplitN(s, " ", 2): s cut at its first space
SplitN2(s) ==
    IF \E i \in 1..Len(s) : s[i] = " "
    THEN LET i == CHOOSE k \in 1..Len(s) :
                      s[k] = " " /\ \A j \in 1..(k - 1) : s[j] # " "
         IN  <<SubSeq(s, 1, i - 1), SubSeq(s, i + 1, Len(s))>>
    ELSE <<s>>

\* the value of a decimal digit, -1 for any other character
DigitVal(c) ==
    CASE c = "0" -> 0 [] c = "1" -> 1 [] c = "2" -> 2 [] c = "3" -> 3
      [] c = "4" -> 4 [] c = "5" -> 5 [] c = "6" -> 6 [] c = "7" -> 7
      [] c = "8" -> 8 [] c = "9" -> 9 [] OTHER -> -1

RECURSIVE DigitsVal(_, _, _)
DigitsVal(s, i, acc) ==
    IF i > Len(s) THEN acc ELSE DigitsVal(s, i + 1, acc * 10 + DigitVal(s[i]))

\* strconv.Atoi and strconv.ParseInt(s, 10, 64) on the numbers of the model
\* (none is out of range): an optional sign, then digits and nothing else
Atoi(s) ==
    LET signed == s # <<>> /\ s[1] \in {"+", "-"}
        digits == IF signed THEN Tail(s) ELSE s
    IN  IF digits = <<>> \/ \E i \in 1..Len(digits) : DigitVal(digits[i]) < 0
        THEN [err |-> TRUE, val |-> 0]
        ELSE [err |-> FALSE,
              val |-> IF signed /\ s[1] = "-" THEN 0 - DigitsVal(digits, 1, 0)
                      ELSE DigitsVal(digits, 1, 0)]

(***************************************************************************)
(* internal/model                                                          *)
(***************************************************************************)
FilterInclude   == "include"
FilterExclude   == "exclude"
FilterIncludeRe == "include_re"
FilterExcludeRe == "exclude_re"
FilterKinds == {FilterInclude, FilterExclude, FilterIncludeRe, FilterExcludeRe}

ScopeTitle   == "title"
ScopeContent == "content"
ScopeAll     == "all"
FilterScopes == {ScopeTitle, ScopeContent, ScopeAll}

(***************************************************************************)
(* internal/filter: the matching engine.                                   *)
(*                                                                         *)
(* Go's regexp is modelled on the patterns of the model's alphabet: a      *)
(* letter matches itself, "." matches any one character, and "[" opens a   *)
(* character class that nothing closes, which regexp.Compile rejects       *)
(* ("missing closing ]").  The prefix "(?i)" makes letters match in either *)
(* case.  MatchString searches the text for the pattern at any position.   *)
(***************************************************************************)
\* regexp.Compile("(?i)" + value): does the pattern compile
regexpCompiles(value) == \A j \in 1..Len(value) : value[j] # "["

\* one pattern character against one text character, under (?i)
reCharMatches(p, t) == p = "." \/ ToLowerChar(p) = ToLowerChar(t)

\* re.MatchString(text) for the compiled "(?i)" + value
MatchString(value, text) ==
    \E i \in 0..(Len(text) - Len(value)) :
        \A j \in 1..Len(value) : reCharMatches(value[j], text[i + j])

\* textForScope with the scope ignored: always title and description
textForScopeIgnored(it, scope) == ToLower(it.Title \o <<" ">> \o it.Description)

textForScope(it, scope) ==
    CASE scope = ScopeTitle   -> ToLower(it.Title)
      [] scope = ScopeContent -> ToLower(it.Description)
      [] OTHER                -> ToLower(it.Title \o <<" ">> \o it.Description)

\* matchesFilter with a pattern that does not compile taken as its text
matchesFilterLiteralFallback(it, f) ==
    Contains(textForScope(it, f.Scope), ToLower(f.Value))
    \/ (f.Kind \in {FilterIncludeRe, FilterExcludeRe} /\ regexpCompiles(f.Value)
        /\ MatchString(f.Value, textForScope(it, f.Scope)))

matchesFilter(it, f) ==
    LET text == textForScope(it, f.Scope) IN
    CASE f.Kind \in {FilterInclude, FilterExclude} ->
            Contains(text, ToLower(f.Value))
      [] f.Kind \in {FilterIncludeRe, FilterExcludeRe} ->
            IF ~regexpCompiles(f.Value) THEN FALSE
            ELSE MatchString(f.Value, text)
      [] OTHER -> FALSE

\* the for loop of Match, from position i on, with its two flags
RECURSIVE MatchLoop(_, _, _, _, _)
MatchLoop(it, fs, i, hasIncludes, anyIncludeMatched) ==
    IF i > Len(fs)
    THEN ~(hasIncludes /\ ~anyIncludeMatched)
    ELSE
        CASE fs[i].Kind \in {FilterInclude, FilterIncludeRe} ->
                MatchLoop(it, fs, i + 1, TRUE,
                          anyIncludeMatched \/ matchesFilter(it, fs[i]))
          [] fs[i].Kind \in {FilterExclude, FilterExcludeRe} ->
                IF matchesFilter(it, fs[i]) THEN FALSE
                ELSE MatchLoop(it, fs, i + 1, hasIncludes, anyIncludeMatched)
          [] OTHER -> MatchLoop(it, fs, i + 1, hasIncludes, anyIncludeMatched)

\* Match with includes that must all match (AND in place of OR)
MatchAllIncludes(it, fs) ==
    /\ \A i \in 1..Len(fs) :
          fs[i].Kind \in {FilterInclude, FilterIncludeRe} => matchesFilter(it, fs[i])
    /\ \A i \in 1..Len(fs) :
          fs[i].Kind \in {FilterExclude, FilterExcludeRe} => ~matchesFilter(it, fs[i])

\* Match that returns true at the first include that matches
RECURSIVE MatchEarlyAcceptLoop(_, _, _, _)
MatchEarlyAcceptLoop(it, fs, i, hasIncludes) ==
    IF i > Len(fs) THEN ~hasIncludes
    ELSE
        CASE fs[i].Kind \in {FilterInclude, FilterIncludeRe} ->
                IF matchesFilter(it, fs[i]) THEN TRUE
                ELSE MatchEarlyAcceptLoop(it, fs, i + 1, TRUE)
          [] OTHER ->
                IF matchesFilter(it, fs[i]) THEN FALSE
                ELSE MatchEarlyAcceptLoop(it, fs, i + 1, hasIncludes)

MatchEarlyAccept(it, fs) == MatchEarlyAcceptLoop(it, fs, 1, FALSE)

Match(it, fs) ==
    IF Len(fs) = 0 THEN TRUE
    ELSE MatchLoop(it, fs, 1, FALSE, FALSE)

ValidateRegex(pattern) == regexpCompiles(pattern)

(***************************************************************************)
(* The inputs of the filter engine in the model.                           *)
(***************************************************************************)
MatchTitles == {<<>>, <<"A">>, <<"b">>}
MatchDescriptions == {<<>>, <<"a">>, <<"b">>, <<"[">>}
MatchItems == [Title : MatchTitles, Description : MatchDescriptions]

\* a letter in the other case, a phrase that spans title and description,
\* a pattern with a wildcard, a pattern that does not compile
MatchValues == {<<"B">>, <<"A", " ", "B">>, <<".", "b">>, <<"[">>}
MatchFilters == [Kind : FilterKinds, Scope : FilterScopes, Value : MatchValues]

NoItem == [Title |-> <<>>, Description |-> <<>>]

(***************************************************************************)
(* internal/fetcher: item identity and FilterItems.                        *)
(***************************************************************************)
DescLimit == 300

\* the bytes of a string: the ASCII characters from " " to "~" in the order
\* of their codes 32..126 (the apostrophe and the grave accent by their
\* codes); the other bytes of the model go by their hexadecimal names
Printable ==
    <<" ", "!", "\"", "#", "$", "%", "&", "0x27", "(", ")", "*", "+",
      ",", "-", ".", "/", "0", "1", "2", "3", "4", "5", "6", "7",
      "8", "9", ":", ";", "<", "=", ">", "?", "@", "A", "B", "C",
      "D", "E", "F", "G", "H", "I", "J", "K", "L", "M", "N", "O",
      "P", "Q", "R", "S", "T", "U", "V", "W", "X", "Y", "Z", "[",
      "\\", "]", "^", "_", "0x60", "a", "b", "c", "d", "e", "f", "g",
      "h", "i", "j", "k", "l", "m", "n", "o", "p", "q", "r", "s",
      "t", "u", "v", "w", "x", "y", "z", "{", "|", "}", "~">>

ByteCode(c) ==
    CASE c = "D1" -> 209 [] c = "8F" -> 143
      [] c = "E2" -> 226 [] c = "82" -> 130 [] c = "AC" -> 172
      [] OTHER -> 31 + (CHOOSE i \in 1..Len(Printable) : Printable[i] = c)

\* crypto/sha256.  A 32-bit word is <<high half, low half>>, two numbers
\* below 2^16.
Half == 65536

RECURSIVE Xor16(_, _, _)
Xor16(a, b, n) ==
    IF n = 0 THEN 0
    ELSE ((a + b) % 2) + 2 * Xor16(a \div 2, b \div 2, n - 1)

RECURSIVE And16(_, _, _)
And16(a, b, n) ==
    IF n = 0 THEN 0
    ELSE ((a % 2) * (b % 2)) + 2 * And16(a \div 2, b \div 2, n - 1)

Xor32(x, y) == <<Xor16(x[1], y[1], 16), Xor16(x[2], y[2], 16)>>
And32(x, y) == <<And16(x[1], y[1], 16), And16(x[2], y[2], 16)>>
Not32(x) == <<Half - 1 - x[1], Half - 1 - x[2]>>

\* x + y modulo 2^32
Add32(x, y) ==
    LET lo == x[2] + y[2]
        hi == x[1] + y[1] + (lo \div Half)
    IN  <<hi % Half, lo % Half>>

\* x >> n
ShR(x, n) ==
    IF n >= 16 THEN <<0, x[1] \div 2^(n - 16)>>
    ELSE <<x[1] \div 2^n, (x[2] \div 2^n) + (x[1] % 2^n) * 2^(16 - n)>>

\* bits.RotateLeft32(x, -n)
RotR(x, n) ==
    LET hi == IF n >= 16 THEN x[2] ELSE x[1]
        lo == IF n >= 16 THEN x[1] ELSE x[2]
        m  == n % 16
    IN  <<(hi \div 2^m) + (lo % 2^m) * 2^(16 - m),
          (lo \div 2^m) + (hi % 2^m) * 2^(16 - m)>>

Ch(x, y, z) == Xor32(And32(x, y), And32(Not32(x), z))
Maj(x, y, z) == Xor32(Xor32(And32(x, y), And32(x, z)), And32(y, z))
BigSigma0(x) == Xor32(Xor32(RotR(x, 2), RotR(x, 13)), RotR(x, 22))
BigSigma1(x) == Xor32(Xor32(RotR(x, 6), RotR(x, 11)), RotR(x, 25))
SmallSigma0(x) == Xor32(Xor32(RotR(x, 7), RotR(x, 18)), ShR(x, 3))
SmallSigma1(x) == Xor32(Xor32(RotR(x, 17), RotR(x, 19)), ShR(x, 10))

\* the round constants and the initial hash value
K256 ==
    <<<<17034, 12184>>, <<28983, 17553>>, <<46528, 64463>>, <<59829, 56229>>,
     <<14678, 49755>>, <<23025, 4593>>, <<37439, 33444>>, <<43804, 24277>>,
     <<55303, 43672>>, <<4739, 23297>>, <<9265, 34238>>, <<21772, 32195>>,
     <<29374, 23924>>, <<32990, 45566>>, <<39900, 1703>>, <<49563, 61812>>,
     <<58523, 27073>>, <<61374, 18310>>, <<4033, 40390>>, <<9228, 41420>>,
     <<11753, 11375>>, <<19060, 33962>>, <<23728, 43484>>, <<30457, 35034>>,
     <<38974, 20818>>, <<43057, 50797>>, <<45059, 10184>>, <<48985, 32711>>,
     <<50912, 3059>>, <<54695, 37191>>, <<1738, 25425>>, <<5161, 10599>>,
     <<10167, 2693>>, <<11803, 8504>>, <<19756, 28156>>, <<21304, 3347>>,
     <<25866, 29524>>, <<30314, 2747>>, <<33218, 51502>>, <<37490, 11397>>,
     <<41663, 59553>>, <<43034, 26187>>, <<49739, 35696>>, <<51052, 20899>>,
     <<53650, 59417>>, <<54937, 1572>>, <<62478, 13701>>, <<4202, 41072>>,
     <<6564, 49430>>, <<7735, 27656>>, <<10056, 30540>>, <<13488, 48309>>,
     <<14620, 3251>>, <<20184, 43594>>, <<23452, 51791>>, <<26670, 28659>>,
     <<29839, 33518>>, <<30885, 25455>>, <<33992, 30740>>, <<36039, 520>>,
     <<37054, 65530>>, <<42064, 27883>>, <<48889, 41975>>, <<50801, 30962>>>>

H256 ==
    <<<<27145, 58983>>, <<47975, 44677>>, <<15470, 62322>>, <<42319, 62778>>,
     <<20750, 21119>>, <<39685, 26764>>, <<8067, 55723>>, <<23520, 52505>>>>

\* the one block of a message of at most 55 bytes: the bytes, 0x80, zeros,
\* and the length in bits in the last 8 bytes
Padded(bytes) ==
    [i \in 1..64 |->
        IF i <= Len(bytes) THEN bytes[i]
        ELSE IF i = Len(bytes) + 1 THEN 128
        ELSE IF i = 63 THEN (8 * Len(bytes)) \div 256
        ELSE IF i = 64 THEN (8 * Len(bytes)) % 256
        ELSE 0]

\* the block as 16 big-endian words
BlockWords(p) ==
    [t \in 1..16 |-> <<p[4 * t - 3] * 256 + p[4 * t - 2],
                       p[4 * t - 1] * 256 + p[4 * t]>>]

\* the message schedule: the 16 words of the block extended to 64
RECURSIVE Schedule(_)
Schedule(w) ==
    IF Len(w) >= 64 THEN w
    ELSE LET t == Len(w) + 1
         IN  Schedule(Append(w,
                 Add32(Add32(SmallSigma1(w[t - 2]), w[t - 7]),
                       Add32(SmallSigma0(w[t - 15]), w[t - 16]))))

\* the rounds t..64 of the compression on the working variables s
RECURSIVE Rounds(_, _, _)
Rounds(s, w, t) ==
    IF Len(s) # 8 \/ t > 64 THEN s
    ELSE LET t1 == Add32(Add32(Add32(s[8], BigSigma1(s[5])),
                               Add32(Ch(s[5], s[6], s[7]), K256[t])), w[t])
             t2 == Add32(BigSigma0(s[1]), Maj(s[1], s[2], s[3]))
         IN  Rounds(<<Add32(t1, t2), s[1], s[2], s[3],
                      Add32(s[4], t1), s[5], s[6], s[7]>>, w, t + 1)

\* sha256.Sum256(data): the 8 words of the digest
Sum256(s) ==
    LET bytes == [i \in 1..Len(s) |-> ByteCode(s[i])]
        w     == Schedule(BlockWords(Padded(bytes)))
        r     == Rounds(H256, w, 1)
    IN  [i \in 1..8 |-> Add32(H256[i], r[i])]

\* the verb %x of fmt on bytes: two lowercase hexadecimal digits a byte
HexDigits ==
    <<"0", "1", "2", "3", "4", "5", "6", "7", "8", "9",
      "a", "b", "c", "d", "e", "f">>

HexOfHalf(h) ==
    <<HexDigits[(h \div 4096) + 1], HexDigits[((h \div 256) % 16) + 1],
      HexDigits[((h \div 16) % 16) + 1], HexDigits[(h % 16) + 1]>>

HexOfWord(x) == HexOfHalf(x[1]) \o HexOfHalf(x[2])

\* the strings title|link of the items of the model that have no GUID
HashedStrings ==
    {<<t, "|", l>> : t \in {"a", "b"}, l \in {"l"}}
    \cup {<<"a", "|", "b", "|", "c">>}

\* "%x" of h[:16] for the strings of the model, computed once
Sum256Memo ==
    [s \in HashedStrings |->
        LET h == Sum256(s)
        IN  HexOfWord(h[1]) \o HexOfWord(h[2]) \o HexOfWord(h[3])
                \o HexOfWord(h[4])]

\* fmt.Sprintf("%x", h[:16]) with h := sha256.Sum256([]byte(s))
Sum256Hex16(s) ==
    IF s \in HashedStrings THEN Sum256Memo[s]
    ELSE LET h == Sum256(s)
         IN  HexOfWord(h[1]) \o HexOfWord(h[2]) \o HexOfWord(h[3])
                 \o HexOfWord(h[4])

\* ItemGUID that hashes the description too
ItemGUIDHashesDescription(it) ==
    IF it.GUID # <<>> THEN it.GUID
    ELSE <<"s", "h", "a", "2", "5", "6", ":">>
             \o Sum256Hex16(it.Title \o <<"|">> \o it.Link \o it.Description)

ItemGUID(it) ==
    IF it.GUID # <<>> THEN it.GUID
    ELSE <<"s", "h", "a", "2", "5", "6", ":">>
             \o Sum256Hex16(it.Title \o <<"|">> \o it.Link)

\* the body of the loop of FilterItems for one item: the MatchedItem
MatchedItem(it) ==
    [Title       |-> it.Title,
     Description |-> IF Len(it.Description) > DescLimit
                     THEN SubSeq(it.Description, 1, DescLimit) \o <<".", ".", ".">>
                     ELSE it.Description,
     Link        |-> it.Link,
     GUID        |-> ItemGUID(it)]

RECURSIVE FilterItemsFrom(_, _, _)
FilterItemsFrom(items, fs, i) ==
    IF i > Len(items) THEN <<>>
    ELSE IF Match([Title |-> items[i].Title, Description |-> items[i].Description], fs)
         THEN <<MatchedItem(items[i])>> \o FilterItemsFrom(items, fs, i + 1)
         ELSE FilterItemsFrom(items, fs, i + 1)

\* FilterItems that returns the matched items last first
FilterItemsLastFirst(items, fs) ==
    LET m == FilterItemsFrom(items, fs, 1)
    IN  [i \in 1..Len(m) |-> m[Len(m) + 1 - i]]

FilterItems(items, fs) == FilterItemsFrom(items, fs, 1)

(***************************************************************************)
(* internal/storage: the SQLite store.                                     *)
(***************************************************************************)
NULL == -1

FeedIds == 1..MaxFeeds

\* t.UTC().Format(timeLayout): the time to the second, the fraction dropped
Format(t) == t \div TicksPerSecond

\* SQLite's datetime(last_check_at, '+' || interval_minutes || ' minutes')
sqlDatetimeAddMinutes(lastCheck, minutes) == lastCheck + minutes * 60

\* dueRow without "is_active = 1"
dueRowAnyFeed(row, nowStr) ==
    \/ row.LastCheckAt = NULL
    \/ sqlDatetimeAddMinutes(row.LastCheckAt, row.IntervalMinutes) <= nowStr

\* dueRow with < in place of <=
dueRowStrict(row, nowStr) ==
    /\ row.IsActive
    /\ \/ row.LastCheckAt = NULL
       \/ sqlDatetimeAddMinutes(row.LastCheckAt, row.IntervalMinutes) < nowStr

\* dueRow without the comparison of last_check_at
dueRowEveryTick(row, nowStr) == row.IsActive

\* dueRow without the comparison of last_check_at with now: a feed is due
\* until its first check
dueRowNeverChecked(row, nowStr) ==
    /\ row.IsActive
    /\ row.LastCheckAt = NULL

\* the WHERE clause of ListDueFeeds for one row, the query's ? bound to nowStr
dueRow(row, nowStr) ==
    /\ row.IsActive
    /\ \/ row.LastCheckAt = NULL
       \/ sqlDatetimeAddMinutes(row.LastCheckAt, row.IntervalMinutes) <= nowStr

\* scanFeed: a row of table feeds as a model.Feed
scanFeed(tbl, id) ==
    [ID              |-> id,
     ChatID          |-> tbl[id].ChatID,
     Name            |-> tbl[id].Name,
     URL             |-> tbl[id].URL,
     IntervalMinutes |-> tbl[id].IntervalMinutes,
     IsActive        |-> tbl[id].IsActive,
     LastCheckAt     |-> tbl[id].LastCheckAt]

\* scanFeeds over a scan of the table from its last row to its first
RECURSIVE scanFeedsReversed(_, _)
scanFeedsReversed(tbl, ids) ==
    IF ids = {} THEN <<>>
    ELSE LET id == CHOOSE x \in ids : \A y \in ids : x >= y
         IN  <<scanFeed(tbl, id)>> \o scanFeedsReversed(tbl, ids \ {id})

\* scanFeeds: the rows of ids in the order of the table scan (by rowid).
\* The query has no ORDER BY; table feeds has no index but its rowid (the
\* INTEGER PRIMARY KEY), so SQLite walks the table in the order of the ids.
RECURSIVE scanFeeds(_, _)
scanFeeds(tbl, ids) ==
    IF ids = {} THEN <<>>
    ELSE LET id == CHOOSE x \in ids : \A y \in ids : x <= y
         IN  <<scanFeed(tbl, id)>> \o scanFeeds(tbl, ids \ {id})

ListDueFeeds(tbl, t) ==
    scanFeeds(tbl, {id \in DOMAIN tbl : dueRow(tbl[id], Format(t))})

\* UpdateFeed without last_check_at in its SET list
UpdateFeedNoLastCheck(tbl, feed) ==
    IF feed.ID \in DOMAIN tbl
    THEN [tbl EXCEPT ![feed.ID] =
            [ChatID          |-> tbl[feed.ID].ChatID,
             Name            |-> feed.Name,
             URL             |-> feed.URL,
             IntervalMinutes |-> feed.IntervalMinutes,
             IsActive        |-> feed.IsActive,
             LastCheckAt     |-> tbl[feed.ID].LastCheckAt]]
    ELSE tbl

\* UPDATE feeds SET name, url, interval_minutes, is_active, last_check_at
\* WHERE id = feed.ID
UpdateFeed(tbl, feed) ==
    IF feed.ID \in DOMAIN tbl
    THEN [tbl EXCEPT ![feed.ID] =
            [ChatID          |-> tbl[feed.ID].ChatID,
             Name            |-> feed.Name,
             URL             |-> feed.URL,
             IntervalMinutes |-> feed.IntervalMinutes,
             IsActive        |-> feed.IsActive,
             LastCheckAt     |-> feed.LastCheckAt]]
    ELSE tbl

\* SELECT ... FROM filters WHERE feed_id = ? ORDER BY id
ListFilters(ftbl, feedID) ==
    IF feedID \in DOMAIN ftbl THEN ftbl[feedID] ELSE <<>>

\* sqlite_sequence of a store from which no row has been deleted: for each
\* AUTOINCREMENT table the largest id of its rows (migrations/00001_init.sql)
MaxOf(S) == IF S = {} THEN 0 ELSE CHOOSE m \in S : \A x \in S : x <= m

SeqOf(tbl, ftbl) ==
    [feeds   |-> MaxOf(DOMAIN tbl),
     filters |-> MaxOf(UNION {{ftbl[f][i].ID : i \in DOMAIN ftbl[f]} :
                                 f \in DOMAIN ftbl})]

\* DeleteFeed without its transaction: the statements before the one that
\* fails stay in effect
DeleteFeedNoTx(st, id, failAt) ==
    LET s1 == [st EXCEPT !.seen = {e \in @ : e[1] # id}]
        s2 == [s1 EXCEPT !.filters = [f \in DOMAIN @ |-> IF f = id THEN <<>> ELSE @[f]]]
        s3 == [s2 EXCEPT !.feeds = [f \in (DOMAIN @) \ {id} |-> @[f]]]
    IN  CASE failAt = "none"    -> [store |-> s3, err |-> FALSE]
          [] failAt = "commit"  -> [store |-> s3, err |-> TRUE]
          [] failAt = "feeds"   -> [store |-> s2, err |-> TRUE]
          [] failAt = "filters" -> [store |-> s1, err |-> TRUE]
          [] OTHER              -> [store |-> st, err |-> TRUE]

\* the statements of DeleteFeed that can fail, in their order
DeleteFailures == {"begin", "seen_items", "filters", "feeds", "commit"}

\* DeleteFeed on the store st = [feeds, filters, seen]: BeginTx, the three
\* DELETEs and Commit; failAt names the statement that fails ("none": no
\* statement does), and the deferred Rollback then undoes the others.
\* The result is the store and whether an error is returned.
DeleteFeed(st, id, failAt) ==
    LET s1 == [st EXCEPT !.seen = {e \in @ : e[1] # id}]
        s2 == [s1 EXCEPT !.filters = [f \in DOMAIN @ |-> IF f = id THEN <<>> ELSE @[f]]]
        s3 == [s2 EXCEPT !.feeds = [f \in (DOMAIN @) \ {id} |-> @[f]]]
    IN  IF failAt = "none"
        THEN [store |-> s3, err |-> FALSE]
        ELSE [store |-> st, err |-> TRUE]

\* SQLite's INSERT into a table whose PRIMARY KEY holds key already: with
\* OR IGNORE the row is skipped and the statement succeeds, without it the
\* statement fails (ABORT).  TRUE when the statement fails.
insertFails(policy, s, key) == policy = "ABORT" /\ key \in s

\* MarkSeen as a plain INSERT
MarkSeenFailsOnConflict(s, feedID, guid) == insertFails("ABORT", s, <<feedID, guid>>)

\* does MarkSeen return an error for a reason other than the store's failing
MarkSeenFails(s, feedID, guid) == insertFails("IGNORE", s, <<feedID, guid>>)

\* MarkSeen on a table keyed by the GUID alone: the item is marked for
\* every feed
MarkSeenAllFeeds(s, feedID, guid) == s \cup {<<f, guid>> : f \in FeedIds}

\* MarkSeen that inserts nothing
MarkSeenDropped(s, feedID, guid) == s

\* INSERT OR IGNORE INTO seen_items (feed_id, guid)
MarkSeen(s, feedID, guid) == s \cup {<<feedID, guid>>}

\* IsSeen without "feed_id = ?" in its WHERE clause
IsSeenAnyFeed(s, feedID, guid) == \E e \in s : e[2] = guid

\* IsSeen that finds nothing
IsSeenNever(s, feedID, guid) == FALSE

\* SELECT COUNT(*) FROM seen_items WHERE feed_id = ? AND guid = ?  > 0
IsSeen(s, feedID, guid) == <<feedID, guid>> \in s

(***************************************************************************)
(* The environment of the scheduler.                                       *)
(***************************************************************************)
\* what a fetch can return: the items of the feed document
\* (one with a GUID of its own, one without)
SchedItems ==
    {[Title |-> <<"a">>, Description |-> <<>>, Link |-> <<"l">>, GUID |-> <<"g">>],
     [Title |-> <<"b">>, Description |-> <<>>, Link |-> <<"l">>, GUID |-> <<>>]}

RECURSIVE SeqsUpTo(_, _)
SeqsUpTo(S, n) ==
    IF n = 0 THEN {<<>>}
    ELSE LET shorter == SeqsUpTo(S, n - 1)
         IN  shorter \cup {Append(q, x) : q \in shorter, x \in S}

FetchResults == SeqsUpTo(SchedItems, MaxItems)

\* the filters of the feeds of the scheduler's model: feed 1 has none, the
\* others exclude the items that hold a "b"
SchedFilters ==
    [f \in FeedIds |->
        IF f = 1 THEN <<>>
        ELSE <<[ID |-> f - 1, Kind |-> FilterExclude, Scope |-> ScopeAll,
                Value |-> <<"B">>]>>]

\* A store call made with ctx: ok is its outcome.  Once ctx is done the call
\* may fail with ctx.Err() (database/sql does) or go through (Storage is an
\* interface, and the call may have passed the check of ctx already);
\* otherwise the call fails only when the store does (at most MaxFaults
\* times in a run of the model).
StoreCall(ok) ==
    /\ (~ok /\ ~cancelled) => faults < MaxFaults
    /\ faults' = IF ~ok /\ ~cancelled THEN faults + 1 ELSE faults

AdvanceClock ==
    /\ now + ClockStep <= MaxClockSteps * ClockStep
    /\ now' = now + ClockStep
    /\ UNCHANGED <<storeVars, cancelled, faults, schedVars, matchVars, botVars>>

\* ctx is cancelled (SIGINT or SIGTERM, cmd/bot/main.go)
Cancel ==
    /\ ~cancelled
    /\ pc # "stopped"
    /\ cancelled' = TRUE
    /\ hist' = [hist EXCEPT !.cancelPc = IF pc \in {"run", "wait"} THEN pc
                                         ELSE "cycle",
                            !.cancelFeed = IF pc \in {"run", "wait", "loop"}
                                           THEN 0 ELSE cur.ID]
    /\ UNCHANGED <<storeVars, now, faults, pc, due, cur, rssItems, matched,
                   idx, sent, matchVars, botVars>>

(***************************************************************************)
(* internal/scheduler: Run, checkAll, processFeed, updateLastCheck.        *)
(*                                                                         *)
(* pc: "run"     Run has been called                                       *)
(*     "wait"    Run is in its select                                      *)
(*     "loop"    checkAll is at the head of its for loop                   *)
(*     "fetch"   processFeed is about to fetch                             *)
(*     "filters" processFeed is about to load the filters                  *)
(*     "items"   processFeed is at the head of its loop over matched       *)
(*     "send"    an unseen item is about to be sent                        *)
(*     "mark"    the item was sent and is about to be marked seen          *)
(*     "update"  updateLastCheck is about to run                           *)
(*     "stopped" Run has returned                                          *)
(***************************************************************************)
NoCur ==
    [ID |-> 0, ChatID |-> 0, Name |-> <<>>, URL |-> <<>>, IntervalMinutes |-> 0,
     IsActive |-> FALSE, LastCheckAt |-> NULL]

HistInit ==
    [cycleStart   |-> 0,        \* the clock when the last cycle began
     phase        |-> "none",   \* of the last processFeed: running, returned
     fetch        |-> "none",   \* its fetch: ok, err
     filt         |-> "none",   \* its ListFilters: ok, err
     filters      |-> <<>>,     \* the filters it loaded
     seen0        |-> {},       \* the seen-set when it began
     sent0        |-> 0,        \* how many messages its feed had when it began
     rest         |-> <<>>,     \* the due feeds that came after it
     procFailed   |-> FALSE,    \* a store call of it has failed
     ledgerFailed |-> FALSE,    \* a store call of the scheduler has failed
     startCancelled |-> FALSE,  \* ctx was done when the last cycle began
     cycle0       |-> <<>>,     \* then: feeds, seen and sent at that moment
     cancelPc     |-> "none",   \* where Run stood when ctx was cancelled:
                                \* run, wait, or cycle (in checkAll)
     returned     |-> <<>>,     \* the ids ListDueFeeds returned to this cycle
     attempted    |-> <<>>,     \* the ids processFeed was called with in it
     failedFeeds  |-> {},       \* those whose fetch or store call failed
     cancelFeed   |-> 0,        \* the feed processFeed was working on when
                                \* ctx was cancelled in this cycle, if any
     lost         |-> {},       \* the <<feed id, guid>> of the messages that
                                \* Telegram did not take
     pending      |-> FALSE,    \* a tick waits in ticker.C (capacity 1)
     ticks        |-> 0,        \* the ticks the ticker has fired
     taken        |-> 0]        \* the ticks Run has received from ticker.C

\* hist after a store call with outcome ok
Called(h, ok) ==
    [h EXCEPT !.procFailed = @ \/ ~ok, !.ledgerFailed = @ \/ ~ok,
              !.failedFeeds = IF ok THEN @ ELSE @ \cup {cur.ID}]

\* the ids of a list of feeds
IDs(q) == [i \in 1..Len(q) |-> q[i].ID]

\* checkAllFrom that gives up Run when ListDueFeeds fails
checkAllFromFatal(h, ok) ==
    /\ StoreCall(ok)
    /\ IF ok
       THEN /\ due' = ListDueFeeds(feeds, now)
            /\ pc' = "loop"
       ELSE /\ due' = <<>>
            /\ pc' = "stopped"
    /\ hist' = [h EXCEPT !.cycleStart = now, !.phase = "none",
                            !.ledgerFailed = @ \/ ~ok,
                            !.startCancelled = cancelled,
                            !.cycle0 = IF cancelled THEN <<feeds, seen, sent>>
                                       ELSE <<>>,
                            !.returned = IF ok
                                         THEN IDs(ListDueFeeds(feeds, now))
                                         ELSE <<>>,
                            !.attempted = <<>>,
                            !.failedFeeds = {}]
    /\ UNCHANGED <<storeVars, now, cancelled, cur, rssItems, matched, idx,
                   sent, matchVars, botVars>>

\* the first statement of checkAll: ListDueFeeds; h is the history so far
checkAllFrom(h, ok) ==
    /\ StoreCall(ok)
    /\ IF ok
       THEN /\ due' = ListDueFeeds(feeds, now)
            /\ pc' = "loop"
       ELSE /\ due' = <<>>
            /\ pc' = "wait"
    /\ hist' = [h EXCEPT !.cycleStart = now, !.phase = "none",
                            !.ledgerFailed = @ \/ ~ok,
                            !.startCancelled = cancelled,
                            !.cycle0 = IF cancelled THEN <<feeds, seen, sent>>
                                       ELSE <<>>,
                            !.returned = IF ok
                                         THEN IDs(ListDueFeeds(feeds, now))
                                         ELSE <<>>,
                            !.attempted = <<>>,
                            !.failedFeeds = {}]
    /\ UNCHANGED <<storeVars, now, cancelled, cur, rssItems, matched, idx,
                   sent, matchVars, botVars>>

checkAll(ok) == checkAllFrom(hist, ok)

\* Run, line 58: the cycle at startup
RunStart(ok) ==
    /\ pc = "run"
    /\ checkAll(ok)

\* Run, case <-ticker.C, with a tick waiting in the channel whenever Run
\* gets there
RunTick(ok) ==
    /\ pc = "wait"
    /\ checkAll(ok)

\* the ticker of Run (time.NewTicker(s.tick), made after the first
\* checkAll has returned) fires: the tick goes into ticker.C, or is dropped
\* when one waits there already.  Before the first tick Run can only be in
\* its select.
Tick ==
    /\ hist.ticks < MaxTicks
    /\ hist.ticks = 0 => pc = "wait"
    /\ pc # "stopped"
    /\ hist' = [hist EXCEPT !.pending = TRUE, !.ticks = @ + 1]
    /\ UNCHANGED <<storeVars, envVars, pc, due, cur, rssItems, matched, idx,
                   sent, matchVars, botVars>>

\* TickTaken that leaves the tick in the channel
TickTakenNotRemoved(ok) ==
    /\ pc = "wait"
    /\ hist.pending
    /\ checkAllFrom([hist EXCEPT !.taken = @ + 1], ok)

\* Run, case <-ticker.C: the tick is taken out of the channel
TickTaken(ok) ==
    /\ pc = "wait"
    /\ hist.pending
    /\ checkAllFrom([hist EXCEPT !.pending = FALSE, !.taken = @ + 1], ok)

\* Run without the case <-ctx.Done(): the select waits for the ticker only
RunDoneNever ==
    /\ pc = "wait"
    /\ cancelled
    /\ UNCHANGED vars

\* Run, case <-ctx.Done()
RunDone ==
    /\ pc = "wait"
    /\ cancelled
    /\ pc' = "stopped"
    /\ UNCHANGED <<storeVars, envVars, due, cur, rssItems, matched, idx, sent,
                   hist, matchVars, botVars>>

\* LoopNext without the check of ctx.Err()
LoopNextNoCtxCheck ==
    /\ pc = "loop"
    /\ IF due = <<>>
       THEN /\ pc' = "wait"
            /\ due' = <<>>
            /\ cur' = NoCur
            /\ hist' = [HistInit EXCEPT !.cycleStart = hist.cycleStart,
                                        !.ledgerFailed = hist.ledgerFailed,
                                        !.startCancelled = hist.startCancelled,
                                        !.cycle0 = hist.cycle0,
                                        !.cancelPc = hist.cancelPc,
                                        !.lost = hist.lost,
                                        !.pending = hist.pending,
                                        !.ticks = hist.ticks,
                                        !.taken = hist.taken]
       ELSE /\ pc' = "fetch"
            /\ cur' = Head(due)
            /\ due' = Tail(due)
            /\ hist' = [hist EXCEPT !.phase = "running", !.fetch = "none",
                                    !.filt = "none", !.filters = <<>>,
                                    !.seen0 = seen,
                                    !.sent0 = Len(sent[Head(due).ID]),
                                    !.rest = Tail(due),
                                    !.procFailed = FALSE,
                                    !.attempted = Append(@, Head(due).ID)]
    /\ rssItems' = <<>>
    /\ matched' = <<>>
    /\ idx' = 1
    /\ UNCHANGED <<storeVars, envVars, sent, matchVars, botVars>>

\* checkAll, the head of the for loop: the end of the list, ctx.Err(), or the
\* call of processFeed with the next feed
LoopNext ==
    /\ pc = "loop"
    /\ IF due = <<>> \/ cancelled
       THEN /\ pc' = "wait"
            /\ due' = <<>>
            /\ cur' = NoCur
            /\ hist' = [HistInit EXCEPT !.cycleStart = hist.cycleStart,
                                        !.ledgerFailed = hist.ledgerFailed,
                                        !.startCancelled = hist.startCancelled,
                                        !.cycle0 = hist.cycle0,
                                        !.cancelPc = hist.cancelPc,
                                        !.lost = hist.lost,
                                        !.pending = hist.pending,
                                        !.ticks = hist.ticks,
                                        !.taken = hist.taken]
       ELSE /\ pc' = "fetch"
            /\ cur' = Head(due)
            /\ due' = Tail(due)
            /\ hist' = [hist EXCEPT !.phase = "running", !.fetch = "none",
                                    !.filt = "none", !.filters = <<>>,
                                    !.seen0 = seen,
                                    !.sent0 = Len(sent[Head(due).ID]),
                                    !.rest = Tail(due),
                                    !.procFailed = FALSE,
                                    !.attempted = Append(@, Head(due).ID)]
    /\ rssItems' = <<>>
    /\ matched' = <<>>
    /\ idx' = 1
    /\ UNCHANGED <<storeVars, envVars, sent, matchVars, botVars>>

\* FetchErr that gives up the cycle: checkAll returns with the feed
FetchErrEndsCycle ==
    /\ pc = "fetch"
    /\ pc' = "wait"
    /\ due' = <<>>
    /\ rssItems' = <<>>
    /\ matched' = <<>>
    /\ idx' = 1
    /\ hist' = [hist EXCEPT !.fetch = "err",
                            !.failedFeeds = @ \cup {cur.ID}]
    /\ UNCHANGED <<storeVars, envVars, cur, sent, matchVars, botVars>>

\* processFeed, Fetch returns an error: updateLastCheck and return
FetchErr ==
    /\ pc = "fetch"
    /\ pc' = "update"
    /\ rssItems' = <<>>
    /\ matched' = <<>>
    /\ idx' = 1
    /\ hist' = [hist EXCEPT !.fetch = "err",
                            !.failedFeeds = @ \cup {cur.ID}]
    /\ UNCHANGED <<storeVars, envVars, due, cur, sent, matchVars, botVars>>

\* FetchOK that marks every fetched item seen at once
FetchOKMarksFetched(items) ==
    /\ pc = "fetch"
    /\ pc' = "filters"
    /\ rssItems' = items
    /\ matched' = <<>>
    /\ idx' = 1
    /\ seen' = seen \cup {<<cur.ID, ItemGUID(items[i])>> : i \in 1..Len(items)}
    /\ hist' = [hist EXCEPT !.fetch = "ok"]
    /\ UNCHANGED <<feeds, filters, seq, envVars, due, cur, sent, matchVars,
                   botVars>>

\* processFeed, Fetch returns the feed document
FetchOK(items) ==
    /\ pc = "fetch"
    /\ pc' = "filters"
    /\ rssItems' = items
    /\ matched' = <<>>
    /\ idx' = 1
    /\ hist' = [hist EXCEPT !.fetch = "ok"]
    /\ UNCHANGED <<storeVars, envVars, due, cur, sent, matchVars, botVars>>

\* ListFiltersStep that treats a failure as a failed fetch is treated:
\* updateLastCheck, then return
ListFiltersStepThenUpdate(ok) ==
    /\ pc = "filters"
    /\ StoreCall(ok)
    /\ IF ok
       THEN /\ matched' = FilterItems(rssItems, ListFilters(filters, cur.ID))
            /\ pc' = "items"
            /\ hist' = [Called(hist, ok) EXCEPT !.filt = "ok",
                            !.filters = ListFilters(filters, cur.ID)]
       ELSE /\ matched' = <<>>
            /\ pc' = "update"
            /\ hist' = [hist EXCEPT !.filt = "err", !.ledgerFailed = TRUE,
                                    !.failedFeeds = @ \cup {cur.ID}]
    /\ idx' = 1
    /\ UNCHANGED <<storeVars, now, cancelled, due, cur, rssItems, sent, matchVars, botVars>>

\* processFeed, ListFilters and FilterItems
ListFiltersStep(ok) ==
    /\ pc = "filters"
    /\ StoreCall(ok)
    /\ IF ok
       THEN /\ matched' = FilterItems(rssItems, ListFilters(filters, cur.ID))
            /\ pc' = "items"
            /\ hist' = [Called(hist, ok) EXCEPT !.filt = "ok",
                            !.filters = ListFilters(filters, cur.ID)]
       ELSE /\ matched' = <<>>
            /\ pc' = "loop"
            /\ hist' = [Called(hist, ok) EXCEPT !.filt = "err",
                                                !.phase = "returned"]
    /\ idx' = 1
    /\ UNCHANGED <<storeVars, now, cancelled, due, cur, rssItems, sent, matchVars, botVars>>

\* IsSeenStep that takes the item for unseen when IsSeen fails
IsSeenStepErrSends(ok) ==
    /\ pc = "items"
    /\ idx <= Len(matched)
    /\ StoreCall(ok)
    /\ IF ~ok \/ ~IsSeen(seen, cur.ID, matched[idx].GUID)
       THEN /\ pc' = "send"
            /\ idx' = idx
       ELSE /\ pc' = "items"
            /\ idx' = idx + 1
    /\ hist' = Called(hist, ok)
    /\ UNCHANGED <<storeVars, now, cancelled, due, cur, rssItems, matched, sent,
                   matchVars, botVars>>

\* processFeed, the loop over matched: IsSeen of the item at idx
IsSeenStep(ok) ==
    /\ pc = "items"
    /\ idx <= Len(matched)
    /\ StoreCall(ok)
    /\ IF ok /\ ~IsSeen(seen, cur.ID, matched[idx].GUID)
       THEN /\ pc' = "send"
            /\ idx' = idx
       ELSE /\ pc' = "items"
            /\ idx' = idx + 1
    /\ hist' = Called(hist, ok)
    /\ UNCHANGED <<storeVars, now, cancelled, due, cur, rssItems, matched, sent,
                   matchVars, botVars>>

\* processFeed, the loop over matched is over
ItemsDone ==
    /\ pc = "items"
    /\ idx > Len(matched)
    /\ pc' = "update"
    /\ UNCHANGED <<storeVars, envVars, due, cur, rssItems, matched, idx, sent,
                   hist, matchVars, botVars>>

\* the message of one SendMessage call
Notification(feed, it) ==
    [ChatID |-> feed.ChatID, Name |-> feed.Name, Title |-> it.Title,
     Description |-> it.Description, Link |-> it.Link, GUID |-> it.GUID]

\* Bot.SendMessage as processFeed calls it: delivered is the outcome of
\* b.api.Send, which SendMessage logs and does not return
SendMessage(delivered) ==
    /\ pc = "send"
    /\ sent' = [sent EXCEPT ![cur.ID] = Append(@, Notification(cur, matched[idx]))]
    /\ pc' = "mark"
    /\ hist' = [hist EXCEPT !.lost = IF delivered THEN @
                                     ELSE @ \cup {<<cur.ID, matched[idx].GUID>>}]
    /\ UNCHANGED <<storeVars, envVars, due, cur, rssItems, matched, idx,
                   matchVars, botVars>>

\* processFeed: s.sender.SendMessage(feed.ChatID, msg), Telegram taking the
\* message
SendStep == SendMessage(TRUE)

\* MarkSeenStep that leaves out the item whose message was not delivered
MarkSeenStepIfDelivered(ok) ==
    /\ pc = "mark"
    /\ StoreCall(ok)
    /\ seen' = IF ok /\ <<cur.ID, matched[idx].GUID>> \notin hist.lost
               THEN MarkSeen(seen, cur.ID, matched[idx].GUID) ELSE seen
    /\ idx' = idx + 1
    /\ pc' = "items"
    /\ hist' = Called(hist, ok)
    /\ UNCHANGED <<feeds, filters, seq, now, cancelled, due, cur, rssItems,
                   matched, sent, matchVars, botVars>>

\* processFeed: MarkSeen of the item just sent, and the pause of 50 ms
MarkSeenStep(ok) ==
    /\ pc = "mark"
    /\ StoreCall(ok)
    /\ seen' = IF ok THEN MarkSeen(seen, cur.ID, matched[idx].GUID) ELSE seen
    /\ idx' = idx + 1
    /\ pc' = "items"
    /\ hist' = Called(hist, ok)
    /\ UNCHANGED <<feeds, filters, seq, now, cancelled, due, cur, rssItems,
                   matched, sent, matchVars, botVars>>

\* updateLastCheck, and the return of processFeed
updateLastCheck(ok) ==
    /\ pc = "update"
    /\ StoreCall(ok)
    /\ cur' = [cur EXCEPT !.LastCheckAt = Format(now)]
    /\ feeds' = IF ok THEN UpdateFeed(feeds, cur') ELSE feeds
    /\ pc' = "loop"
    /\ hist' = [Called(hist, ok) EXCEPT !.phase = "returned"]
    /\ UNCHANGED <<filters, seen, seq, now, cancelled, due, rssItems, matched,
                   idx, sent, matchVars, botVars>>

(***************************************************************************)
(* The scheduler alone on a store that holds MaxFeeds feeds: no command    *)
(* of the bot runs.                                                        *)
(***************************************************************************)
FeedRows ==
    [ChatID : {100}, Name : {<<"n">>}, URL : {<<"u">>},
     IntervalMinutes : 1..MaxInterval, IsActive : BOOLEAN,
     LastCheckAt : {NULL, 0}]

\* a feed as handleAdd stores it, checked every minute
StoreRow ==
    [ChatID |-> 100, Name |-> <<"n">>, URL |-> <<"u">>, IntervalMinutes |-> 1,
     IsActive |-> TRUE, LastCheckAt |-> NULL]

\* the feeds of the scheduler's model: feed 1 is active, checked every
\* minute and not checked yet; the others have any interval and are either
\* active and not checked yet, or paused, after a check or before any
SchedFeeds ==
    {t \in [FeedIds -> FeedRows] :
        /\ t[1].IsActive /\ t[1].IntervalMinutes = 1
        /\ \A f \in FeedIds : t[f].IsActive => t[f].LastCheckAt = NULL}

MatchParked ==
    /\ item = NoItem
    /\ flist = <<>>
    /\ verdict = "none"

\* no command is being handled, none has been
\* reply is the kind of the last message a handler sent with b.reply; items,
\* fresh and i are matched, newItems and the loop position of handleCheck
NoCmd ==
    [op |-> "idle", feed |-> NoCur, n |-> 0, reply |-> "none",
     items |-> <<>>, fresh |-> <<>>, i |-> 1]

\* no update has been received
NoUpdate ==
    [kind |-> "none", user |-> 0, chat |-> 0, command |-> "", args |-> <<>>,
     data |-> <<>>]

BotParked ==
    /\ cmd = NoCmd
    /\ cfg = [AllowedUsers |-> {}]
    /\ update = NoUpdate

SchedParked ==
    /\ pc = "stopped"
    /\ due = <<>>
    /\ cur = NoCur
    /\ rssItems = <<>>
    /\ matched = <<>>
    /\ idx = 1
    /\ sent = [f \in FeedIds |-> <<>>]
    /\ hist = HistInit

Init ==
    /\ feeds \in SchedFeeds
    /\ filters = SchedFilters
    /\ seen = {}
    /\ seq = SeqOf(feeds, filters)
    /\ now = 0
    /\ cancelled = FALSE
    /\ faults = 0
    /\ pc = "run"
    /\ due = <<>>
    /\ cur = NoCur
    /\ rssItems = <<>>
    /\ matched = <<>>
    /\ idx = 1
    /\ sent = [f \in FeedIds |-> <<>>]
    /\ hist = HistInit
    /\ MatchParked
    /\ BotParked

Next ==
    \/ \E ok \in BOOLEAN : RunStart(ok)
    \/ \E ok \in BOOLEAN : RunTick(ok)
    \/ RunDone
    \/ LoopNext
    \/ FetchErr
    \/ \E items \in FetchResults : FetchOK(items)
    \/ \E ok \in BOOLEAN : ListFiltersStep(ok)
    \/ \E ok \in BOOLEAN : IsSeenStep(ok)
    \/ ItemsDone
    \/ SendStep
    \/ \E ok \in BOOLEAN : MarkSeenStep(ok)
    \/ \E ok \in BOOLEAN : updateLastCheck(ok)
    \/ AdvanceClock
    \/ Cancel

Spec == Init /\ [][Next]_vars

\* a step of the scheduler goroutine other than the two cases of Run's select
Proceed ==
    \/ \E ok \in BOOLEAN : RunStart(ok)
    \/ LoopNext
    \/ FetchErr
    \/ \E items \in FetchResults : FetchOK(items)
    \/ \E ok \in BOOLEAN : ListFiltersStep(ok)
    \/ \E ok \in BOOLEAN : IsSeenStep(ok)
    \/ ItemsDone
    \/ SendStep
    \/ \E ok \in BOOLEAN : MarkSeenStep(ok)
    \/ \E ok \in BOOLEAN : updateLastCheck(ok)

\* The scheduler under the scheduling of Go: the goroutine of Run keeps
\* running (every call it makes returns: the fetch is bound to ctx, the
\* pause is 50 ms), and a select whose case <-ctx.Done() is ready again and
\* again takes it in the end (select picks among the ready cases at
\* random).  The ticker, the clock and the cancellation are not forced.
SpecLive == Init /\ [][Next]_vars /\ WF_vars(Proceed) /\ SF_vars(RunDone)

(***************************************************************************)
(* internal/bot: the commands that write to table feeds.  Bot.Run handles  *)
(* one update at a time, in a goroutine of its own beside Scheduler.Run    *)
(* (cmd/bot/main.go); a handler reads the feed with GetFeed, changes one   *)
(* field of its copy and writes the copy back with UpdateFeed.             *)
(***************************************************************************)
MinInterval == 1
MaxIntervalMinutes == 1440
DefaultInterval == 15

ParseError == [err |-> TRUE, id |-> 0, mins |-> 0, name |-> <<>>]

\* ParseIDArg
ParseIDArg(args) ==
    LET t == TrimSpace(args)
    IN  IF t = <<>> THEN ParseError
        ELSE LET id == Atoi(Fields(t)[1])
             IN  IF id.err THEN ParseError
                 ELSE [ParseError EXCEPT !.err = FALSE, !.id = id.val]

\* ParseRenameArgs
ParseRenameArgs(args) ==
    LET parts == SplitN2(TrimSpace(args))
    IN  IF Len(parts) < 2 THEN ParseError
        ELSE LET id == Atoi(parts[1])
                 name == TrimSpace(parts[2])
             IN  IF id.err \/ name = <<>> THEN ParseError
                 ELSE [ParseError EXCEPT !.err = FALSE, !.id = id.val,
                                         !.name = name]

\* ParseIntervalArgs that checks the lower limit only
ParseIntervalArgsNoUpperLimit(args) ==
    LET parts == Fields(args)
    IN  IF Len(parts) < 2 THEN ParseError
        ELSE LET id == Atoi(parts[1])
                 mins == Atoi(parts[2])
             IN  IF id.err \/ mins.err \/ mins.val < MinInterval
                 THEN ParseError
                 ELSE [ParseError EXCEPT !.err = FALSE, !.id = id.val,
                                         !.mins = mins.val]

\* ParseIntervalArgs
ParseIntervalArgs(args) ==
    LET parts == Fields(args)
    IN  IF Len(parts) < 2 THEN ParseError
        ELSE LET id == Atoi(parts[1])
                 mins == Atoi(parts[2])
             IN  IF id.err THEN ParseError
                 ELSE IF mins.err \/ mins.val < MinInterval
                         \/ mins.val > MaxIntervalMinutes
                      THEN ParseError
                      ELSE [ParseError EXCEPT !.err = FALSE, !.id = id.val,
                                              !.mins = mins.val]

\* CreateFeed: INSERT INTO feeds; the row gets the next id, which
\* AUTOINCREMENT takes from sqlite_sequence: one more than the largest id
\* the table ever held
NextFeedID(sq) == sq.feeds + 1

CreateFeed(tbl, sq, feed) ==
    [id \in (DOMAIN tbl) \cup {NextFeedID(sq)} |->
        IF id \in DOMAIN tbl THEN tbl[id]
        ELSE [ChatID          |-> feed.ChatID,
              Name            |-> feed.Name,
              URL             |-> feed.URL,
              IntervalMinutes |-> feed.IntervalMinutes,
              IsActive        |-> feed.IsActive,
              LastCheckAt     |-> NULL]]

MaxCommands == 2      \* commands handled in one run

ChatIDs == {100, 200}

\* the arguments of the commands of the model ("1 x" stands for "<id> <arg>")
IDArgs == {<<"1">>, <<" ", "2", " ">>, <<"x">>, <<>>}

RenameArgs == {<<"1", " ", "m">>, <<"2", " ", " ", "m", " ">>, <<"1", " ">>}

IntervalArgs ==
    {<<"1", " ", "0">>, <<"1", " ", "2">>, <<"2", " ", " ", "1">>,
     <<"1", " ", "1", "4", "4", "0">>, <<"1", " ", "1", "4", "4", "1">>,
     <<"1", " ", "-", "1">>, <<"1", " ", "x">>, <<"1">>}

\* Bot.Run handles one update at a time: no handler is between its GetFeed
\* and its UpdateFeed
HandlerReady ==
    /\ cmd.op = "idle"
    /\ cmd.n < MaxCommands

\* the checks of the handlers: the arguments parse, GetFeed finds the feed,
\* and the feed belongs to the chat
HandlerFinds(chatID, a) ==
    /\ ~a.err
    /\ a.id \in DOMAIN feeds
    /\ feeds[a.id].ChatID = chatID

\* the handler holds its changed copy of the feed, UpdateFeed is next
HandlerHolds(op, feed) ==
    /\ cmd' = [cmd EXCEPT !.op = op, !.feed = feed, !.n = @ + 1]
    /\ UNCHANGED <<storeVars, envVars, schedVars, matchVars>>

\* b.reply(chatID, ...) and return, the store untouched: kind is "usage"
\* (the arguments do not parse), "notfound" ("Feed #%d not found.",
\* "Filter F%d not found.") or "done" (the answer of a command that reads)
HandlerReplies(kind) ==
    /\ cmd' = [cmd EXCEPT !.n = @ + 1, !.reply = kind]
    /\ UNCHANGED <<storeVars, envVars, schedVars, matchVars>>

\* the reply of a handler whose arguments a do not parse, or whose feed is
\* not there or belongs to another chat
HandlerRefuses(a) == HandlerReplies(IF a.err THEN "usage" ELSE "notfound")

handleRename(chatID, args) ==
    LET a == ParseRenameArgs(args)
    IN  /\ HandlerReady
        /\ IF HandlerFinds(chatID, a)
           THEN HandlerHolds("rename",
                             [scanFeed(feeds, a.id) EXCEPT !.Name = a.name])
           ELSE HandlerRefuses(a)

handleInterval(chatID, args) ==
    LET a == ParseIntervalArgs(args)
    IN  /\ HandlerReady
        /\ IF HandlerFinds(chatID, a)
           THEN HandlerHolds("interval",
                             [scanFeed(feeds, a.id) EXCEPT
                                 !.IntervalMinutes = a.mins])
           ELSE HandlerRefuses(a)

handlePause(chatID, args) ==
    LET a == ParseIDArg(args)
    IN  /\ HandlerReady
        /\ IF HandlerFinds(chatID, a)
           THEN HandlerHolds("pause",
                             [scanFeed(feeds, a.id) EXCEPT !.IsActive = FALSE])
           ELSE HandlerRefuses(a)

handleResume(chatID, args) ==
    LET a == ParseIDArg(args)
    IN  /\ HandlerReady
        /\ IF HandlerFinds(chatID, a)
           THEN HandlerHolds("resume",
                             [scanFeed(feeds, a.id) EXCEPT !.IsActive = TRUE])
           ELSE HandlerRefuses(a)

\* the second half of the four handlers: b.store.UpdateFeed(ctx, feed)
handlerUpdateFeed(ok) ==
    /\ cmd.op \in {"rename", "interval", "pause", "resume"}
    /\ StoreCall(ok)
    /\ feeds' = IF ok THEN UpdateFeed(feeds, cmd.feed) ELSE feeds
    /\ cmd' = [cmd EXCEPT !.op = "idle", !.feed = NoCur,
                          !.reply = IF ok THEN "done" ELSE "error"]
    /\ UNCHANGED <<filters, seen, seq, now, cancelled, schedVars, matchVars>>

\* what Fetch returns to handleAdd: an error, or a feed document with a
\* title or without
AddFetches ==
    {[err |-> TRUE, Title |-> <<>>], [err |-> FALSE, Title |-> <<>>],
     [err |-> FALSE, Title |-> <<"t">>]}

\* handleAdd: args is the URL, fetched what Fetch returned for it, ok the
\* outcome of CreateFeed
handleAdd(chatID, args, fetched, ok) ==
    /\ HandlerReady
    /\ IF args = <<>> THEN HandlerReplies("usage")
       ELSE IF fetched.err THEN HandlerReplies("error")
       ELSE /\ NextFeedID(seq) <= MaxFeeds
            /\ StoreCall(ok)
            /\ feeds' = IF ok
                        THEN CreateFeed(feeds, seq,
                                 [ChatID |-> chatID,
                                  Name |-> IF fetched.Title = <<>> THEN args
                                           ELSE fetched.Title,
                                  URL |-> args,
                                  IntervalMinutes |-> DefaultInterval,
                                  IsActive |-> TRUE])
                        ELSE feeds
            /\ seq' = IF ok THEN [seq EXCEPT !.feeds = @ + 1] ELSE seq
            /\ cmd' = [cmd EXCEPT !.n = @ + 1,
                                  !.reply = IF ok THEN "done" ELSE "error"]
            /\ UNCHANGED <<filters, seen, now, cancelled, schedVars, matchVars>>

\* The scheduler and the bot side by side, on a store that holds one feed.
\* The store does not fail and ctx is not cancelled; every fetch that
\* succeeds returns the same one item.
InitCmd ==
    /\ feeds = [f \in {1} |-> StoreRow]
    /\ filters = SchedFilters
    /\ seen = {}
    /\ seq = SeqOf(feeds, filters)
    /\ now = 0
    /\ cancelled = FALSE
    /\ faults = MaxFaults
    /\ pc = "run"
    /\ due = <<>>
    /\ cur = NoCur
    /\ rssItems = <<>>
    /\ matched = <<>>
    /\ idx = 1
    /\ sent = [f \in FeedIds |-> <<>>]
    /\ hist = HistInit
    /\ MatchParked
    /\ BotParked

\* the handlers called one by one, as bot_handlers_test.go calls them: no
\* update is received and the configuration is not read
BotStep ==
    \/ \E c \in ChatIDs, a \in RenameArgs :
          handleRename(c, a) /\ UNCHANGED <<cfg, update>>
    \/ \E c \in ChatIDs, a \in IntervalArgs :
          handleInterval(c, a) /\ UNCHANGED <<cfg, update>>
    \/ \E c \in ChatIDs, a \in IDArgs :
          handlePause(c, a) /\ UNCHANGED <<cfg, update>>
    \/ \E c \in ChatIDs, a \in IDArgs :
          handleResume(c, a) /\ UNCHANGED <<cfg, update>>
    \/ \E ok \in BOOLEAN : handlerUpdateFeed(ok) /\ UNCHANGED <<cfg, update>>
    \/ \E c \in ChatIDs, f \in AddFetches, ok \in BOOLEAN :
          handleAdd(c, <<"u">>, f, ok) /\ UNCHANGED <<cfg, update>>

CmdFetchResults == {q \in FetchResults : Len(q) = 1 /\ q[1].GUID # <<>>}

SchedStep ==
    \/ \E ok \in BOOLEAN : RunStart(ok)
    \/ \E ok \in BOOLEAN : RunTick(ok)
    \/ LoopNext
    \/ FetchErr
    \/ \E items \in CmdFetchResults : FetchOK(items)
    \/ \E ok \in BOOLEAN : ListFiltersStep(ok)
    \/ \E ok \in BOOLEAN : IsSeenStep(ok)
    \/ ItemsDone
    \/ SendStep
    \/ \E ok \in BOOLEAN : MarkSeenStep(ok)
    \/ \E ok \in BOOLEAN : updateLastCheck(ok)
    \/ AdvanceClock

NextCmd == SchedStep \/ BotStep

SpecCmd == InitCmd /\ [][NextCmd]_vars


(***************************************************************************)
(* The scheduler on one feed without filters whose fetches return items    *)
(* with and without a GUID, among them two that differ in the description  *)
(* only.  ctx is not cancelled.                                            *)
(***************************************************************************)
IdentityItems ==
    {[Title |-> <<"b">>, Description |-> <<>>, Link |-> <<"l">>, GUID |-> <<>>],
     [Title |-> <<"b">>, Description |-> <<"A">>, Link |-> <<"l">>, GUID |-> <<>>],
     [Title |-> <<"a">>, Description |-> <<>>, Link |-> <<"l">>, GUID |-> <<>>],
     [Title |-> <<"b">>, Description |-> <<>>, Link |-> <<"l">>, GUID |-> <<"g">>]}

IdentityFetchResults == SeqsUpTo(IdentityItems, MaxItems)

InitIdentity ==
    /\ feeds = [f \in {1} |-> StoreRow]
    /\ filters = SchedFilters
    /\ seen = {}
    /\ seq = SeqOf(feeds, filters)
    /\ now = 0
    /\ cancelled = FALSE
    /\ faults = 0
    /\ pc = "run"
    /\ due = <<>>
    /\ cur = NoCur
    /\ rssItems = <<>>
    /\ matched = <<>>
    /\ idx = 1
    /\ sent = [f \in FeedIds |-> <<>>]
    /\ hist = HistInit
    /\ MatchParked
    /\ BotParked

NextIdentity ==
    \/ \E ok \in BOOLEAN : RunStart(ok)
    \/ \E ok \in BOOLEAN : RunTick(ok)
    \/ LoopNext
    \/ FetchErr
    \/ \E items \in IdentityFetchResults : FetchOK(items)
    \/ \E ok \in BOOLEAN : ListFiltersStep(ok)
    \/ \E ok \in BOOLEAN : IsSeenStep(ok)
    \/ ItemsDone
    \/ SendStep
    \/ \E ok \in BOOLEAN : MarkSeenStep(ok)
    \/ \E ok \in BOOLEAN : updateLastCheck(ok)
    \/ AdvanceClock

SpecIdentity == InitIdentity /\ [][NextIdentity]_vars

(***************************************************************************)
(* The same scheduler on fetches whose items have no GUID and hold the     *)
(* character "|" in the title or in the link.                              *)
(***************************************************************************)
DelimiterItems ==
    {[Title |-> <<"a", "|", "b">>, Description |-> <<>>, Link |-> <<"c">>,
      GUID |-> <<>>],
     [Title |-> <<"a">>, Description |-> <<>>, Link |-> <<"b", "|", "c">>,
      GUID |-> <<>>],
     [Title |-> <<"b">>, Description |-> <<>>, Link |-> <<"l">>, GUID |-> <<>>]}

DelimiterFetchResults == SeqsUpTo(DelimiterItems, MaxItems)

NextDelimiter ==
    \/ \E ok \in BOOLEAN : RunStart(ok)
    \/ \E ok \in BOOLEAN : RunTick(ok)
    \/ LoopNext
    \/ FetchErr
    \/ \E items \in DelimiterFetchResults : FetchOK(items)
    \/ \E ok \in BOOLEAN : ListFiltersStep(ok)
    \/ \E ok \in BOOLEAN : IsSeenStep(ok)
    \/ ItemsDone
    \/ SendStep
    \/ \E ok \in BOOLEAN : MarkSeenStep(ok)
    \/ \E ok \in BOOLEAN : updateLastCheck(ok)
    \/ AdvanceClock

SpecDelimiter == InitIdentity /\ [][NextDelimiter]_vars

(***************************************************************************)
(* The due-feed query alone: ListDueFeeds on a store whose feeds were last *)
(* checked at any of a few times, at every tick of a clock that runs past  *)
(* the longest interval.                                                   *)
(***************************************************************************)
DueRows ==
    [ChatID : {100}, Name : {<<"n">>}, URL : {<<"u">>},
     IntervalMinutes : 1..MaxInterval, IsActive : BOOLEAN,
     LastCheckAt : {NULL, 1}]

DueHorizon == (MaxInterval * 60 + 3) * TicksPerSecond

StoreParked ==
    /\ feeds = <<>>
    /\ filters = <<>>
    /\ seen = {}
    /\ seq = SeqOf(feeds, filters)

EnvParked ==
    /\ now = 0
    /\ cancelled = FALSE
    /\ faults = 0

InitDue ==
    /\ feeds \in [FeedIds -> DueRows]
    /\ filters = [f \in FeedIds |-> <<>>]
    /\ seen = {}
    /\ seq = SeqOf(feeds, filters)
    /\ EnvParked
    /\ SchedParked
    /\ MatchParked
    /\ BotParked

\* time passes; the result of the last query is dropped
DueTick ==
    /\ now < DueHorizon
    /\ now' = now + 1
    /\ due' = <<>>
    /\ hist' = HistInit
    /\ UNCHANGED <<storeVars, cancelled, faults, pc, cur, rssItems, matched,
                   idx, sent, matchVars, botVars>>

\* s.store.ListDueFeeds(ctx) at the time now
DueQuery ==
    /\ hist.phase = "none"
    /\ due' = ListDueFeeds(feeds, now)
    /\ hist' = [hist EXCEPT !.phase = "listed", !.cycleStart = now]
    /\ UNCHANGED <<storeVars, envVars, pc, cur, rssItems, matched, idx, sent,
                   matchVars, botVars>>

NextDue ==
    \/ DueTick
    \/ DueQuery

SpecDue == InitDue /\ [][NextDue]_vars

(***************************************************************************)
(* The filter engine alone: Match on any item and any list of at most      *)
(* MaxFilters filters.                                                     *)
(***************************************************************************)
InitMatch ==
    /\ StoreParked
    /\ EnvParked
    /\ SchedParked
    /\ item \in MatchItems
    /\ flist = <<>>
    /\ verdict = "none"
    /\ BotParked

\* one more filter in the list
AddFilter(f) ==
    /\ Len(flist) < MaxFilters
    /\ flist' = Append(flist, f)
    /\ verdict' = "none"
    /\ UNCHANGED <<storeVars, envVars, schedVars, item, botVars>>

\* filter.Match(item, flist)
Evaluate ==
    /\ verdict = "none"
    /\ verdict' = IF Match(item, flist) THEN "pass" ELSE "reject"
    /\ UNCHANGED <<storeVars, envVars, schedVars, item, flist, botVars>>

NextMatch ==
    \/ \E f \in MatchFilters : AddFilter(f)
    \/ Evaluate

SpecMatch == InitMatch /\ [][NextMatch]_vars


(***************************************************************************)
(* FilterItems alone, on descriptions about as long as the limit.  A Go    *)
(* string is a sequence of bytes, the UTF-8 encoding of its characters,    *)
(* and len(desc) and desc[:300] count bytes.  A byte of the model is "a"   *)
(* (ASCII) or the hexadecimal name of a byte of a longer character.        *)
(***************************************************************************)
\* the UTF-8 encodings of "a", of U+044F (2 bytes) and of U+20AC (3 bytes)
Utf8Chars == {<<"a">>, <<"D1", "8F">>, <<"E2", "82", "AC">>}

\* a continuation byte (10xxxxxx)
IsContinuation(b) == b \in {"8F", "82", "AC"}

\* the length of the character that the leading byte b announces
LeadWidth(b) == CASE b = "D1" -> 2 [] b = "E2" -> 3 [] OTHER -> 1

\* utf8.DecodeRuneInString(s[i:]): the width of the rune at byte i; a byte
\* that does not start a complete character is one rune (RuneError) of
\* width 1
RuneWidth(s, i) ==
    LET w == LeadWidth(s[i])
    IN  IF /\ ~IsContinuation(s[i])
           /\ i + w - 1 <= Len(s)
           /\ \A j \in 1..(w - 1) : IsContinuation(s[i + j])
        THEN w ELSE 1

\* byte i starts a rune of utf8.DecodeRuneInString's walk through s: every
\* byte does, but the continuation bytes of a complete character
IsRuneStart(s, i) ==
    \/ ~IsContinuation(s[i])
    \/ ~\E l \in {i - 2, i - 1} : l >= 1 /\ RuneWidth(s, l) > i - l

RuneStarts(s) == {i \in 1..Len(s) : IsRuneStart(s, i)}

\* utf8.RuneCountInString(s)
RuneCount(s) == Cardinality(RuneStarts(s))

MaxPrefix == 2    \* ASCII characters in front of the repeated character
Margin == 2       \* how far the lengths go below and above the limit

\* n times the character c
Repeat(c, n) == [i \in 1..(n * Len(c)) |-> c[((i - 1) % Len(c)) + 1]]

\* the numbers of characters that bring a description of 1-byte, 2-byte or
\* 3-byte characters near the limit
NearLimit ==
    UNION {((DescLimit \div w) - Margin)..((DescLimit \div w) + Margin) :
              w \in 1..3}

\* the descriptions: k times "a", then n times one character
Descriptions ==
    {Repeat(<<"a">>, k) \o Repeat(c, n) :
        k \in 0..MaxPrefix, c \in Utf8Chars, n \in NearLimit}

\* what Fetch returns: one item with such a description
LongItems ==
    {<<[Title |-> <<"t">>, Description |-> d, Link |-> <<"l">>,
        GUID |-> <<"g">>]>> : d \in Descriptions}

\* the filters of the feed: none, or one that asks for "a"
LongFilters ==
    {<<>>,
     <<[Kind |-> FilterInclude, Scope |-> ScopeContent, Value |-> <<"a">>]>>}

InitFilterItems ==
    /\ StoreParked
    /\ EnvParked
    /\ pc = "stopped"
    /\ due = <<>>
    /\ cur = NoCur
    /\ rssItems \in LongItems
    /\ matched = <<>>
    /\ idx = 1
    /\ sent = [f \in FeedIds |-> <<>>]
    /\ hist = HistInit
    /\ item = NoItem
    /\ flist \in LongFilters
    /\ verdict = "none"
    /\ BotParked

\* fetcher.FilterItems(feed.Items, filters)
FilterItemsCall ==
    /\ verdict = "none"
    /\ matched' = FilterItems(rssItems, flist)
    /\ verdict' = "filtered"
    /\ UNCHANGED <<storeVars, envVars, pc, due, cur, rssItems, idx, sent, hist,
                   item, flist, botVars>>

NextFilterItems == FilterItemsCall

SpecFilterItems == InitFilterItems /\ [][NextFilterItems]_vars

(***************************************************************************)
(* The store alone: MarkSeen, IsSeen and DeleteFeed called in any order on *)
(* a store of MaxFeeds feeds.  hist holds the last call: its arguments,    *)
(* the store before it, its result; and the pairs marked since their feed  *)
(* was last deleted.                                                       *)
(***************************************************************************)
StoreGUIDs == {<<"g">>, <<"h">>}

TheStore == [feeds |-> feeds, filters |-> filters, seen |-> seen]

\* every feed of the store has a filter of its own
StoreFilters ==
    [f \in FeedIds |->
        <<[ID |-> f, Kind |-> IF f = 1 THEN FilterInclude ELSE FilterExclude,
           Scope |-> ScopeAll, Value |-> <<"B">>]>>]

StoreHistInit ==
    [op |-> "none", feedID |-> 0, guid |-> <<>>, failAt |-> "none",
     pre |-> [feeds |-> <<>>, filters |-> <<>>, seen |-> {}],
     err |-> FALSE, result |-> FALSE, repeat |-> FALSE, marked |-> {}]

InitStore ==
    /\ feeds = [f \in FeedIds |-> StoreRow]
    /\ filters = StoreFilters
    /\ seen = {}
    /\ seq = SeqOf(feeds, filters)
    /\ EnvParked
    /\ pc = "stopped"
    /\ due = <<>>
    /\ cur = NoCur
    /\ rssItems = <<>>
    /\ matched = <<>>
    /\ idx = 1
    /\ sent = [f \in FeedIds |-> <<>>]
    /\ hist = StoreHistInit
    /\ MatchParked
    /\ BotParked

\* s.MarkSeen(ctx, feedID, guid)
StoreMarkSeen(feedID, guid) ==
    /\ seen' = IF MarkSeenFails(seen, feedID, guid) THEN seen
               ELSE MarkSeen(seen, feedID, guid)
    /\ hist' = [hist EXCEPT
                  !.op = "MarkSeen", !.feedID = feedID, !.guid = guid,
                  !.failAt = "none", !.pre = TheStore,
                  !.err = MarkSeenFails(seen, feedID, guid),
                  !.result = FALSE,
                  !.repeat = (hist.op = "MarkSeen" /\ hist.feedID = feedID
                              /\ hist.guid = guid),
                  !.marked = @ \cup {<<feedID, guid>>}]
    /\ UNCHANGED <<feeds, filters, seq, envVars, pc, due, cur, rssItems,
                   matched, idx, sent, matchVars, botVars>>

\* s.IsSeen(ctx, feedID, guid)
StoreIsSeen(feedID, guid) ==
    /\ hist' = [hist EXCEPT
                  !.op = "IsSeen", !.feedID = feedID, !.guid = guid,
                  !.failAt = "none", !.pre = TheStore, !.err = FALSE,
                  !.result = IsSeen(seen, feedID, guid),
                  !.repeat = FALSE]
    /\ UNCHANGED <<storeVars, envVars, pc, due, cur, rssItems, matched, idx,
                   sent, matchVars, botVars>>

\* s.DeleteFeed(ctx, id), the statement failAt failing
StoreDeleteFeed(id, failAt) ==
    /\ failAt # "none" => faults < MaxFaults
    /\ faults' = IF failAt # "none" THEN faults + 1 ELSE faults
    /\ LET r == DeleteFeed(TheStore, id, failAt)
       IN  /\ feeds' = r.store.feeds
           /\ filters' = r.store.filters
           /\ seen' = r.store.seen
           /\ hist' = [hist EXCEPT
                         !.op = "DeleteFeed", !.feedID = id, !.guid = <<>>,
                         !.failAt = failAt, !.pre = TheStore, !.err = r.err,
                         !.result = FALSE, !.repeat = FALSE,
                         !.marked = IF r.err THEN @
                                    ELSE {e \in @ : e[1] # id}]
    /\ UNCHANGED <<seq, now, cancelled, pc, due, cur, rssItems, matched, idx,
                   sent, matchVars, botVars>>

NextStore ==
    \/ \E f \in FeedIds, g \in StoreGUIDs : StoreMarkSeen(f, g)
    \/ \E f \in FeedIds, g \in StoreGUIDs : StoreIsSeen(f, g)
    \/ \E f \in FeedIds, failAt \in DeleteFailures \cup {"none"} :
          StoreDeleteFeed(f, failAt)

SpecStore == InitStore /\ [][NextStore]_vars

(***************************************************************************)
(* internal/bot: Bot.Run and every handler.  An update is a command        *)
(* message, a callback query of an inline button, or a message that is no  *)
(* command; user is update.Message.From.ID (cb.From.ID), chat is           *)
(* update.Message.Chat.ID (cb.Message.Chat.ID), command is msg.Command(),  *)
(* args is msg.CommandArguments() and data is cb.Data.                     *)
(***************************************************************************)
\* Config.IsUserAllowed: an empty list allows every user
IsUserAllowed(c, userID) ==
    IF c.AllowedUsers = {} THEN TRUE ELSE userID \in c.AllowedUsers

\* GetFilter: the row of table filters with this id, with the feed it
\* belongs to; err is sql.ErrNoRows
GetFilter(ftbl, id) ==
    LET hits == UNION {{<<f, i>> : i \in {j \in DOMAIN ftbl[f] :
                                                ftbl[f][j].ID = id}} :
                          f \in DOMAIN ftbl}
    IN  IF hits = {} THEN [err |-> TRUE, FeedID |-> 0, ID |-> id]
        ELSE LET h == CHOOSE h \in hits : TRUE
             IN  [err |-> FALSE, FeedID |-> h[1], ID |-> id]

\* CreateFilter: INSERT INTO filters; the row gets the next id of
\* sqlite_sequence, the largest of its feed, so it is last in id order
CreateFilter(ftbl, sq, f) ==
    [ftbl EXCEPT ![f.FeedID] =
        Append(@, [ID |-> sq.filters + 1, Kind |-> f.Kind, Scope |-> f.Scope,
                   Value |-> f.Value])]

\* DeleteFilter: DELETE FROM filters WHERE id = ?
DeleteFilter(ftbl, id) ==
    [f \in DOMAIN ftbl |-> SelectSeq(ftbl[f], LAMBDA r : r.ID # id)]

\* strings.Join(parts, " ")
RECURSIVE Join(_)
Join(parts) ==
    IF Len(parts) = 0 THEN <<>>
    ELSE IF Len(parts) = 1 THEN parts[1]
    ELSE parts[1] \o <<" ">> \o Join(Tail(parts))

FilterParseError == [err |-> TRUE, id |-> 0, Scope |-> ScopeAll, Value |-> <<>>]

\* the scope named after -s, "" when the word names none
ScopeOf(word) ==
    CASE word = <<"t", "i", "t", "l", "e">>                -> ScopeTitle
      [] word = <<"c", "o", "n", "t", "e", "n", "t">>      -> ScopeContent
      [] word = <<"a", "l", "l">>                          -> ScopeAll
      [] OTHER                                             -> ""

\* ParseFilterCommand: <feed_id> [-s title|content|all] <value...>
ParseFilterCommand(args) ==
    LET parts == Fields(args)
    IN  IF Len(parts) < 2 THEN FilterParseError
        ELSE LET id == Atoi(parts[1])
                 rest == Tail(parts)
                 flag == Len(rest) >= 2 /\ rest[1] = <<"-", "s">>
                 value == IF flag THEN Tail(Tail(rest)) ELSE rest
             IN  IF id.err THEN FilterParseError
                 ELSE IF flag /\ ScopeOf(rest[2]) = "" THEN FilterParseError
                 ELSE IF Len(value) = 0 THEN FilterParseError
                 ELSE [err |-> FALSE, id |-> id.val,
                       Scope |-> IF flag THEN ScopeOf(rest[2]) ELSE ScopeAll,
                       Value |-> Join(value)]

\* commands that read the store only, or nothing
handleStart(chatID) == HandlerReady /\ HandlerReplies("done")

handleHelp(chatID) == HandlerReady /\ HandlerReplies("done")

handleList(chatID) == HandlerReady /\ HandlerReplies("done")

handleInfo(chatID, args) ==
    LET a == ParseIDArg(args)
    IN  /\ HandlerReady
        /\ IF HandlerFinds(chatID, a) THEN HandlerReplies("done")
           ELSE HandlerRefuses(a)

handleFilters(chatID, args) ==
    LET a == ParseIDArg(args)
    IN  /\ HandlerReady
        /\ IF HandlerFinds(chatID, a) THEN HandlerReplies("done")
           ELSE HandlerRefuses(a)

\* handleRemove that deletes the feed whatever chat it belongs to
handleRemoveAnyChat(chatID, args, failAt) ==
    LET a == ParseIDArg(args)
        r == DeleteFeed(TheStore, a.id, failAt)
    IN  /\ HandlerReady
        /\ IF ~a.err /\ a.id \in DOMAIN feeds
           THEN /\ failAt # "none" => faults < MaxFaults
                /\ faults' = IF failAt # "none" THEN faults + 1 ELSE faults
                /\ feeds' = r.store.feeds
                /\ filters' = r.store.filters
                /\ seen' = r.store.seen
                /\ cmd' = [cmd EXCEPT !.n = @ + 1,
                              !.reply = IF r.err THEN "error" ELSE "done"]
                /\ UNCHANGED <<seq, now, cancelled, schedVars, matchVars>>
           ELSE HandlerRefuses(a)

\* handleRemove: failAt is the statement of DeleteFeed that fails, if any
handleRemove(chatID, args, failAt) ==
    LET a == ParseIDArg(args)
        r == DeleteFeed(TheStore, a.id, failAt)
    IN  /\ HandlerReady
        /\ IF HandlerFinds(chatID, a)
           THEN /\ failAt # "none" => faults < MaxFaults
                /\ faults' = IF failAt # "none" THEN faults + 1 ELSE faults
                /\ feeds' = r.store.feeds
                /\ filters' = r.store.filters
                /\ seen' = r.store.seen
                /\ cmd' = [cmd EXCEPT !.n = @ + 1,
                              !.reply = IF r.err THEN "error" ELSE "done"]
                /\ UNCHANGED <<seq, now, cancelled, schedVars, matchVars>>
           ELSE HandlerRefuses(a)

\* handleAddFilter without the call of ValidateRegex
handleAddFilterUnchecked(chatID, args, kind, ok) ==
    LET a == ParseFilterCommand(args)
    IN  /\ HandlerReady
        /\ IF ~HandlerFinds(chatID, a) THEN HandlerRefuses(a)
           ELSE /\ StoreCall(ok)
                /\ filters' = IF ok
                              THEN CreateFilter(filters, seq,
                                       [FeedID |-> a.id, Kind |-> kind,
                                        Scope |-> a.Scope, Value |-> a.Value])
                              ELSE filters
                /\ seq' = IF ok THEN [seq EXCEPT !.filters = @ + 1] ELSE seq
                /\ cmd' = [cmd EXCEPT !.n = @ + 1,
                              !.reply = IF ok THEN "done" ELSE "error"]
                /\ UNCHANGED <<feeds, seen, now, cancelled, schedVars,
                               matchVars>>

\* handleAddFilter: kind is the command, ok the outcome of CreateFilter
handleAddFilter(chatID, args, kind, ok) ==
    LET a == ParseFilterCommand(args)
    IN  /\ HandlerReady
        /\ IF ~HandlerFinds(chatID, a) THEN HandlerRefuses(a)
           ELSE IF kind \in {FilterIncludeRe, FilterExcludeRe}
                   /\ ~ValidateRegex(a.Value)
           THEN HandlerReplies("invalid")
           ELSE /\ StoreCall(ok)
                /\ filters' = IF ok
                              THEN CreateFilter(filters, seq,
                                       [FeedID |-> a.id, Kind |-> kind,
                                        Scope |-> a.Scope, Value |-> a.Value])
                              ELSE filters
                /\ seq' = IF ok THEN [seq EXCEPT !.filters = @ + 1] ELSE seq
                /\ cmd' = [cmd EXCEPT !.n = @ + 1,
                              !.reply = IF ok THEN "done" ELSE "error"]
                /\ UNCHANGED <<feeds, seen, now, cancelled, schedVars,
                               matchVars>>

\* handleRmFilter: the filter is looked up, then the feed it belongs to;
\* ok is the outcome of DeleteFilter
handleRmFilter(chatID, args, ok) ==
    LET a == ParseIDArg(args)
        f == GetFilter(filters, a.id)
    IN  /\ HandlerReady
        /\ IF a.err \/ f.err THEN HandlerRefuses(a)
           ELSE IF ~(f.FeedID \in DOMAIN feeds
                     /\ feeds[f.FeedID].ChatID = chatID)
           THEN HandlerReplies("notfound")
           ELSE /\ StoreCall(ok)
                /\ filters' = IF ok THEN DeleteFilter(filters, a.id)
                              ELSE filters
                /\ cmd' = [cmd EXCEPT !.n = @ + 1,
                              !.reply = IF ok THEN "done" ELSE "error"]
                /\ UNCHANGED <<feeds, seen, seq, now, cancelled, schedVars,
                               matchVars>>

\* handleCheck up to its fetch: the handler holds its copy of the feed
handleCheck(chatID, args) ==
    LET a == ParseIDArg(args)
    IN  /\ HandlerReady
        /\ IF HandlerFinds(chatID, a)
           THEN HandlerHolds("check:fetch", scanFeed(feeds, a.id))
           ELSE HandlerRefuses(a)

\* the handler returns: Run waits for the next update
HandlerReturns(kind) ==
    [NoCmd EXCEPT !.n = cmd.n, !.reply = kind]

\* handleCheck: Fetch fails
checkFetchErr ==
    /\ cmd.op = "check:fetch"
    /\ cmd' = HandlerReturns("error")
    /\ UNCHANGED <<storeVars, envVars, schedVars, matchVars>>

\* handleCheck: Fetch returns items; ListFilters (its error is dropped, the
\* filters are then none) and FilterItems
checkFetchOK(items, ok) ==
    /\ cmd.op = "check:fetch"
    /\ StoreCall(ok)
    /\ cmd' = [cmd EXCEPT
                 !.op = "check:seen",
                 !.items = FilterItems(items,
                               IF ok THEN ListFilters(filters, cmd.feed.ID)
                               ELSE <<>>),
                 !.fresh = <<>>,
                 !.i = 1]
    /\ UNCHANGED <<storeVars, now, cancelled, schedVars, matchVars>>

\* handleCheck, first loop: IsSeen of the next item (its error is dropped,
\* the item then counts as not seen)
checkIsSeen(ok) ==
    /\ cmd.op = "check:seen"
    /\ cmd.i <= Len(cmd.items)
    /\ StoreCall(ok)
    /\ cmd' = [cmd EXCEPT
                 !.fresh = IF ok /\ IsSeen(seen, cmd.feed.ID, cmd.items[cmd.i].GUID)
                           THEN @ ELSE Append(@, cmd.items[cmd.i]),
                 !.i = @ + 1]
    /\ UNCHANGED <<storeVars, now, cancelled, schedVars, matchVars>>

\* handleCheck between its loops: len(newItems) == 0 ends it, with the
\* reply "No new matching items" ("nonew")
checkCollected ==
    /\ cmd.op = "check:seen"
    /\ cmd.i > Len(cmd.items)
    /\ cmd' = IF cmd.fresh = <<>> THEN HandlerReturns("nonew")
              ELSE [cmd EXCEPT !.op = "check:send", !.i = 1]
    /\ UNCHANGED <<storeVars, envVars, schedVars, matchVars>>

\* handleCheck, second loop: b.reply(chatID, FormatNotification(...)); the
\* chat is the chat of the feed (the check of handleCheck has passed)
checkSend ==
    /\ cmd.op = "check:send"
    /\ sent' = [sent EXCEPT ![cmd.feed.ID] =
                   Append(@, Notification(cmd.feed, cmd.fresh[cmd.i]))]
    /\ cmd' = [cmd EXCEPT !.op = "check:mark"]
    /\ UNCHANGED <<storeVars, envVars, pc, due, cur, rssItems, matched, idx,
                   hist, matchVars>>

\* checkMarkSeen without the call of MarkSeen
checkMarkSeenDropped(ok) ==
    /\ cmd.op = "check:mark"
    /\ StoreCall(ok)
    /\ seen' = seen
    /\ cmd' = IF cmd.i = Len(cmd.fresh) THEN HandlerReturns("found")
              ELSE [cmd EXCEPT !.op = "check:send", !.i = @ + 1]
    /\ UNCHANGED <<feeds, filters, seq, now, cancelled, schedVars, matchVars>>

\* handleCheck, second loop: MarkSeen (its error is dropped), and after the
\* last item the reply "Found %d new item(s)" ("found")
checkMarkSeen(ok) ==
    /\ cmd.op = "check:mark"
    /\ StoreCall(ok)
    /\ seen' = IF ok THEN MarkSeen(seen, cmd.feed.ID, cmd.fresh[cmd.i].GUID)
               ELSE seen
    /\ cmd' = IF cmd.i = Len(cmd.fresh) THEN HandlerReturns("found")
              ELSE [cmd EXCEPT !.op = "check:send", !.i = @ + 1]
    /\ UNCHANGED <<feeds, filters, seq, now, cancelled, schedVars, matchVars>>

\* strings.SplitN(data, ":", 2)
SplitColon2(data) ==
    LET colons == {i \in 1..Len(data) : data[i] = ":"}
    IN  IF colons = {} THEN <<data>>
        ELSE LET c == CHOOSE i \in colons : \A j \in colons : i <= j
             IN  <<SubSeq(data, 1, c - 1), SubSeq(data, c + 1, Len(data))>>

cmdCheck == <<"c", "h", "e", "c", "k">>
cmdFilters == <<"f", "i", "l", "t", "e", "r", "s">>
cmdRmFilter == <<"r", "m", "f", "i", "l", "t", "e", "r">>
cmdDeleteConfirm ==
    <<"d", "e", "l", "e", "t", "e", "_", "c", "o", "n", "f", "i", "r", "m">>
cmdDelete == <<"d", "e", "l", "e", "t", "e">>

\* the update is dropped: no handler runs, nothing is sent
Continue ==
    /\ cmd' = [cmd EXCEPT !.n = @ + 1, !.reply = "none"]
    /\ UNCHANGED <<storeVars, envVars, schedVars, matchVars>>

\* handleCallback: the button data is "<action>:<id>"
handleCallback(chatID, data) ==
    LET parts == SplitColon2(data)
        action == parts[1]
        idStr == parts[2]
    IN  /\ HandlerReady
        /\ IF Len(parts) # 2 THEN Continue
           ELSE IF Atoi(idStr).err THEN Continue
           ELSE \/ action = cmdFilters /\ handleFilters(chatID, idStr)
                \/ action = cmdCheck /\ handleCheck(chatID, idStr)
                \/ /\ action = cmdDeleteConfirm
                   /\ IF HandlerFinds(chatID, [err |-> FALSE,
                                               id |-> Atoi(idStr).val])
                      THEN HandlerReplies("confirm")
                      ELSE HandlerReplies("notfound")
                \/ /\ action = cmdDelete
                   /\ \E failAt \in DeleteFailures \cup {"none"} :
                         handleRemove(chatID, idStr, failAt)
                \/ /\ action = cmdRmFilter
                   /\ \E ok \in BOOLEAN : handleRmFilter(chatID, idStr, ok)
                \/ /\ action \notin {cmdFilters, cmdCheck, cmdDeleteConfirm,
                                     cmdDelete, cmdRmFilter}
                   /\ Continue

\* the URLs of the model
AddArgs == {<<>>, <<"u">>}

\* the arguments of the filter commands of the model
FilterArgs ==
    {<<"1", " ", "b">>, <<"2", " ", "-", "s", " ", "t", "i", "t", "l", "e", " ", "b">>,
     <<"1", " ", "-", "s", " ", "x", " ", "b">>,
     <<"1", " ", "-", "s", " ", "a", "l", "l">>, <<"x", " ", "b">>, <<"1">>,
     <<"2", " ", "[">>}

\* handleCommand: args is strings.TrimSpace(msg.CommandArguments())
handleCommand(chatID, command, args) ==
    \/ command = "start" /\ handleStart(chatID)
    \/ command = "help" /\ handleHelp(chatID)
    \/ /\ command = "add"
       /\ \E f \in AddFetches, ok \in BOOLEAN : handleAdd(chatID, args, f, ok)
    \/ command = "list" /\ handleList(chatID)
    \/ command = "info" /\ handleInfo(chatID, args)
    \/ /\ command = "remove"
       /\ \E failAt \in DeleteFailures \cup {"none"} :
             handleRemove(chatID, args, failAt)
    \/ command = "rename" /\ handleRename(chatID, args)
    \/ command = "interval" /\ handleInterval(chatID, args)
    \/ command = "pause" /\ handlePause(chatID, args)
    \/ command = "resume" /\ handleResume(chatID, args)
    \/ command = "check" /\ handleCheck(chatID, args)
    \/ command = "filters" /\ handleFilters(chatID, args)
    \/ /\ command \in {"include", "exclude", "include_re", "exclude_re"}
       /\ \E ok \in BOOLEAN : handleAddFilter(chatID, args, command, ok)
    \/ /\ command = "rmfilter"
       /\ \E ok \in BOOLEAN : handleRmFilter(chatID, args, ok)
    \/ /\ command \notin {"start", "help", "add", "list", "info", "remove",
                          "rename", "interval", "pause", "resume", "check",
                          "filters", "include", "exclude", "include_re",
                          "exclude_re", "rmfilter"}
       /\ HandlerReplies("unknown")

\* Bot.Run, case update := <-updates
Run(u) ==
    /\ HandlerReady
    /\ update' = u
    /\ UNCHANGED cfg
    /\ IF u.kind = "callback" THEN handleCallback(u.chat, u.data)
       ELSE IF u.kind # "command" THEN Continue
       ELSE IF ~IsUserAllowed(cfg, u.user) THEN HandlerReplies("denied")
       ELSE handleCommand(u.chat, u.command, TrimSpace(u.args))

(***************************************************************************)
(* The bot alone: Run receives updates from two users in two chats, on a   *)
(* store whose feed 1 belongs to chat 100 and whose feed 2, when there is  *)
(* one, to chat 200; each feed has one filter and one seen item.  The      *)
(* allow-list is empty or names user 1.                                    *)
(***************************************************************************)
UserIDs == {1, 2}

Configs == {[AllowedUsers |-> {}], [AllowedUsers |-> {1}]}

BotFeeds ==
    {[f \in ids |-> [StoreRow EXCEPT !.ChatID = 100 * f]] :
        ids \in {{1}, {1, 2}}}

BotFilters(tbl) ==
    [f \in FeedIds |->
        IF f \in DOMAIN tbl
        THEN <<[ID |-> f, Kind |-> FilterExclude, Scope |-> ScopeAll,
                Value |-> <<"B">>]>>
        ELSE <<>>]

\* the arguments each command of the model is sent with
ArgsOf(command) ==
    CASE command \in {"info", "remove", "pause", "resume", "check", "filters",
                      "rmfilter"}                         -> IDArgs
      [] command = "rename"                               -> RenameArgs
      [] command = "interval"                             -> IntervalArgs
      [] command \in {"include", "exclude_re"}            -> FilterArgs
      [] command = "add"                                  -> AddArgs
      [] OTHER                                            -> {<<>>}

Commands ==
    {"start", "help", "add", "list", "info", "remove", "rename", "interval",
     "pause", "resume", "check", "filters", "include", "exclude_re",
     "rmfilter", "bogus"}

\* the data of the buttons pressed in the model
CallbackData ==
    {cmdFilters \o <<":", "1">>, cmdCheck \o <<":", "2">>,
     cmdDeleteConfirm \o <<":", "1">>, cmdDelete \o <<":", "1">>,
     cmdDelete \o <<":", "2">>, cmdRmFilter \o <<":", "1">>,
     cmdRmFilter \o <<":", "2">>, <<"n", "o", "o", "p", ":", "0">>,
     cmdDelete \o <<":", "x">>, cmdDelete}

Updates ==
    UNION {{[NoUpdate EXCEPT !.kind = "command", !.user = usr, !.chat = c,
                             !.command = k, !.args = a] :
               usr \in UserIDs, c \in ChatIDs, a \in ArgsOf(k)} :
           k \in Commands}
    \cup {[NoUpdate EXCEPT !.kind = "callback", !.user = usr, !.chat = c,
                           !.data = d] :
             usr \in UserIDs, c \in ChatIDs, d \in CallbackData}
    \cup {[NoUpdate EXCEPT !.kind = "text", !.user = usr, !.chat = c] :
             usr \in UserIDs, c \in ChatIDs}

BotFetchResults == {q \in FetchResults : Len(q) <= 1}

InitBot ==
    /\ feeds \in BotFeeds
    /\ filters = BotFilters(feeds)
    /\ seen = {<<f, <<"g">>>> : f \in DOMAIN feeds}
    /\ seq = SeqOf(feeds, filters)
    /\ EnvParked
    /\ SchedParked
    /\ MatchParked
    /\ cmd = NoCmd
    /\ cfg \in Configs
    /\ update = NoUpdate

NextBot ==
    \/ \E u \in Updates : Run(u)
    \/ \E ok \in BOOLEAN : handlerUpdateFeed(ok) /\ UNCHANGED <<cfg, update>>
    \/ checkFetchErr /\ UNCHANGED <<cfg, update>>
    \/ \E items \in BotFetchResults, ok \in BOOLEAN :
          checkFetchOK(items, ok) /\ UNCHANGED <<cfg, update>>
    \/ \E ok \in BOOLEAN : checkIsSeen(ok) /\ UNCHANGED <<cfg, update>>
    \/ checkCollected /\ UNCHANGED <<cfg, update>>
    \/ checkSend /\ UNCHANGED <<cfg, update>>
    \/ \E ok \in BOOLEAN : checkMarkSeen(ok) /\ UNCHANGED <<cfg, update>>

SpecBot == InitBot /\ [][NextBot]_vars

(***************************************************************************)
(* The scheduler and forced checks side by side (go sched.Run(ctx) and     *)
(* b.Run(ctx) in cmd/bot/main.go), on a store that holds one feed.  The    *)
(* store does not fail and ctx is not cancelled; every fetch that succeeds *)
(* returns one item with a GUID.                                           *)
(***************************************************************************)
CheckStep ==
    \/ \E c \in ChatIDs, a \in IDArgs :
          handleCheck(c, a) /\ UNCHANGED <<cfg, update>>
    \/ checkFetchErr /\ UNCHANGED <<cfg, update>>
    \/ \E items \in CmdFetchResults, ok \in BOOLEAN :
          checkFetchOK(items, ok) /\ UNCHANGED <<cfg, update>>
    \/ \E ok \in BOOLEAN : checkIsSeen(ok) /\ UNCHANGED <<cfg, update>>
    \/ checkCollected /\ UNCHANGED <<cfg, update>>
    \/ checkSend /\ UNCHANGED <<cfg, update>>
    \/ \E ok \in BOOLEAN : checkMarkSeen(ok) /\ UNCHANGED <<cfg, update>>

NextCheck == SchedStep \/ CheckStep

SpecCheck == InitCmd /\ [][NextCheck]_vars

(***************************************************************************)
(* The scheduler on one feed with a Telegram that may refuse a message     *)
(* (b.api.Send returns an error, which SendMessage logs).  The store does  *)
(* not fail and ctx is not cancelled.                                      *)
(***************************************************************************)
NextDelivery ==
    \/ \E ok \in BOOLEAN : RunStart(ok)
    \/ \E ok \in BOOLEAN : RunTick(ok)
    \/ LoopNext
    \/ FetchErr
    \/ \E items \in FetchResults : FetchOK(items)
    \/ \E ok \in BOOLEAN : ListFiltersStep(ok)
    \/ \E ok \in BOOLEAN : IsSeenStep(ok)
    \/ ItemsDone
    \/ \E delivered \in BOOLEAN : SendMessage(delivered)
    \/ \E ok \in BOOLEAN : MarkSeenStep(ok)
    \/ \E ok \in BOOLEAN : updateLastCheck(ok)
    \/ AdvanceClock

SpecDelivery == InitCmd /\ [][NextDelivery]_vars

(***************************************************************************)
(* The scheduler with its ticker: a cycle after the first begins with a    *)
(* tick taken from ticker.C.  The store does not fail; every fetch that    *)
(* succeeds returns one item with a GUID.                                  *)
(***************************************************************************)
InitTick ==
    /\ feeds \in SchedFeeds
    /\ filters = SchedFilters
    /\ seen = {}
    /\ seq = SeqOf(feeds, filters)
    /\ now = 0
    /\ cancelled = FALSE
    /\ faults = MaxFaults
    /\ pc = "run"
    /\ due = <<>>
    /\ cur = NoCur
    /\ rssItems = <<>>
    /\ matched = <<>>
    /\ idx = 1
    /\ sent = [f \in FeedIds |-> <<>>]
    /\ hist = HistInit
    /\ MatchParked
    /\ BotParked

NextTick ==
    \/ \E ok \in BOOLEAN : RunStart(ok)
    \/ Tick
    \/ \E ok \in BOOLEAN : TickTaken(ok)
    \/ RunDone
    \/ LoopNext
    \/ FetchErr
    \/ \E items \in CmdFetchResults : FetchOK(items)
    \/ \E ok \in BOOLEAN : ListFiltersStep(ok)
    \/ \E ok \in BOOLEAN : IsSeenStep(ok)
    \/ ItemsDone
    \/ SendStep
    \/ \E ok \in BOOLEAN : MarkSeenStep(ok)
    \/ \E ok \in BOOLEAN : updateLastCheck(ok)
    \/ AdvanceClock
    \/ Cancel

SpecTick == InitTick /\ [][NextTick]_vars

(***************************************************************************)
(* The scheduler beside /remove (the handler runs in the goroutine of      *)
(* Bot.Run), on a store that holds one feed with one filter.  The store    *)
(* does not fail and ctx is not cancelled; every fetch that succeeds       *)
(* returns one item with a GUID.                                           *)
(***************************************************************************)
InitRemove ==
    /\ feeds = [f \in {1} |-> StoreRow]
    /\ filters = BotFilters(feeds)
    /\ seen = {}
    /\ seq = SeqOf(feeds, filters)
    /\ now = 0
    /\ cancelled = FALSE
    /\ faults = MaxFaults
    /\ pc = "run"
    /\ due = <<>>
    /\ cur = NoCur
    /\ rssItems = <<>>
    /\ matched = <<>>
    /\ idx = 1
    /\ sent = [f \in FeedIds |-> <<>>]
    /\ hist = HistInit
    /\ MatchParked
    /\ BotParked

RemoveStep ==
    \E c \in ChatIDs, a \in IDArgs, failAt \in DeleteFailures \cup {"none"} :
        handleRemove(c, a, failAt) /\ UNCHANGED <<cfg, update>>

NextRemove == SchedStep \/ RemoveStep

SpecRemove == InitRemove /\ [][NextRemove]_vars

(***************************************************************************)
(* The scheduler with its ticker on a store that may fail, under the       *)
(* scheduling of Go: the goroutine of Run keeps running, a select whose    *)
(* only ready case is <-ticker.C takes it, and a select whose case         *)
(* <-ctx.Done() is ready again and again takes it in the end.  The ticker, *)
(* the clock and the cancellation are not forced.  Every feed is active    *)
(* and checked every minute.                                               *)
(***************************************************************************)
InitFaulty ==
    /\ feeds = [f \in FeedIds |-> StoreRow]
    /\ filters = SchedFilters
    /\ seen = {}
    /\ seq = SeqOf(feeds, filters)
    /\ now = 0
    /\ cancelled = FALSE
    /\ faults = 0
    /\ pc = "run"
    /\ due = <<>>
    /\ cur = NoCur
    /\ rssItems = <<>>
    /\ matched = <<>>
    /\ idx = 1
    /\ sent = [f \in FeedIds |-> <<>>]
    /\ hist = HistInit
    /\ MatchParked
    /\ BotParked

SpecTickLive ==
    /\ InitFaulty
    /\ [][NextTick]_vars
    /\ WF_vars(Proceed)
    /\ WF_vars(\E ok \in BOOLEAN : TickTaken(ok))
    /\ SF_vars(RunDone)

(***************************************************************************)
(* The scheduler with a ticker that keeps firing (a tick is ready whenever *)
(* Run gets to its select) and a ctx that is never cancelled, under the    *)
(* scheduling of Go: the goroutine of Run keeps running and the select     *)
(* takes the tick.  Every feed is active and checked every minute; the     *)
(* store fails at most MaxFaults times; the clock is not forced.           *)
(***************************************************************************)
NextFair ==
    \/ \E ok \in BOOLEAN : RunStart(ok)
    \/ \E ok \in BOOLEAN : RunTick(ok)
    \/ LoopNext
    \/ FetchErr
    \/ \E items \in CmdFetchResults : FetchOK(items)
    \/ \E ok \in BOOLEAN : ListFiltersStep(ok)
    \/ \E ok \in BOOLEAN : IsSeenStep(ok)
    \/ ItemsDone
    \/ SendStep
    \/ \E ok \in BOOLEAN : MarkSeenStep(ok)
    \/ \E ok \in BOOLEAN : updateLastCheck(ok)
    \/ AdvanceClock

SpecFair ==
    /\ InitFaulty
    /\ [][NextFair]_vars
    /\ WF_vars(Proceed)
    /\ WF_vars(\E ok \in BOOLEAN : RunTick(ok))

(***************************************************************************)
(* Properties of the filter engine (checked under SpecMatch).              *)
(***************************************************************************)
IsIncludeKind(f) == f.Kind \in {FilterInclude, FilterIncludeRe}
IsExcludeKind(f) == f.Kind \in {FilterExclude, FilterExcludeRe}
IsRegexKind(f)   == f.Kind \in {FilterIncludeRe, FilterExcludeRe}
IsLiteralKind(f) == f.Kind \in {FilterInclude, FilterExclude}

AnyExcludeMatches(it, fs) ==
    \E i \in 1..Len(fs) : IsExcludeKind(fs[i]) /\ matchesFilter(it, fs[i])

NoIncludesOrAnyIncludeMatches(it, fs) ==
    \/ ~\E i \in 1..Len(fs) : IsIncludeKind(fs[i])
    \/ \E i \in 1..Len(fs) : IsIncludeKind(fs[i]) /\ matchesFilter(it, fs[i])

Evaluated == verdict # "none"
Passed == verdict = "pass"

\* C7: Match(item, filters) is (no include filter, or some include filter
\* matches) and (no exclude filter matches); an empty list passes the item.
C7_MatchIsComposition ==
    Evaluated =>
        /\ Passed <=> (/\ NoIncludesOrAnyIncludeMatches(item, flist)
                       /\ ~AnyExcludeMatches(item, flist))
        /\ flist = <<>> => Passed

\* an include that matches beside an include that does not, and an item
\* that passes
C7_Witness ==
    /\ Passed
    /\ Len(flist) = 2
    /\ IsIncludeKind(flist[1]) /\ ~matchesFilter(item, flist[1])
    /\ IsIncludeKind(flist[2]) /\ matchesFilter(item, flist[2])

IndexPermutations(n) ==
    {p \in [1..n -> 1..n] : \A i, j \in 1..n : p[i] = p[j] => i = j}

Permuted(fs, p) == [i \in 1..Len(fs) |-> fs[p[i]]]

\* C8: an item that matches an exclude filter is rejected, however many
\* include filters match and wherever the filters stand: Match gives the same
\* result for every permutation of the list.
C8_ExcludeWinsInAnyOrder ==
    Evaluated =>
        /\ AnyExcludeMatches(item, flist) => ~Passed
        /\ \A p \in IndexPermutations(Len(flist)) :
              Match(item, Permuted(flist, p)) <=> Passed

\* an include that matches stands before an exclude that matches
C8_Witness ==
    /\ verdict = "reject"
    /\ Len(flist) = 2
    /\ IsIncludeKind(flist[1]) /\ matchesFilter(item, flist[1])
    /\ IsExcludeKind(flist[2]) /\ matchesFilter(item, flist[2])

InvalidRegex(f) == IsRegexKind(f) /\ ~ValidateRegex(f.Value)

\* the list without its exclude filters whose pattern does not compile
RECURSIVE WithoutInvalidExcludes(_)
WithoutInvalidExcludes(fs) ==
    IF fs = <<>> THEN <<>>
    ELSE IF IsExcludeKind(Head(fs)) /\ InvalidRegex(Head(fs))
         THEN WithoutInvalidExcludes(Tail(fs))
         ELSE <<Head(fs)>> \o WithoutInvalidExcludes(Tail(fs))

\* C9: a regex filter whose pattern does not compile never matches: an item
\* whose only include filters are such filters is rejected, and such an
\* exclude filter never vetoes (the result is that of the list without it).
C9_InvalidRegexNeverMatches ==
    Evaluated =>
        /\ \A i \in 1..Len(flist) :
              InvalidRegex(flist[i]) => ~matchesFilter(item, flist[i])
        /\ ( /\ \E i \in 1..Len(flist) : IsIncludeKind(flist[i])
             /\ \A i \in 1..Len(flist) :
                   IsIncludeKind(flist[i]) => InvalidRegex(flist[i]) )
           => ~Passed
        /\ Passed <=> Match(item, WithoutInvalidExcludes(flist))

\* an exclude filter that does not compile, on a text that holds its
\* pattern, beside an include that matches: the item passes
C9_Witness ==
    /\ Passed
    /\ Len(flist) = 2
    /\ IsExcludeKind(flist[1]) /\ InvalidRegex(flist[1])
    /\ Contains(textForScope(item, flist[1].Scope), flist[1].Value)
    /\ IsIncludeKind(flist[2])

\* the text a scope names, as the claim words it
ScopedText(it, scope) ==
    IF scope = ScopeTitle THEN it.Title
    ELSE IF scope = ScopeContent THEN it.Description
    ELSE it.Title \o <<" ">> \o it.Description

\* value occurs in text, letters compared without regard to case
ContainsFold(text, value) ==
    \E i \in 0..(Len(text) - Len(value)) :
        \A j \in 1..Len(value) : ToLowerChar(text[i + j]) = ToLowerChar(value[j])

AllScoped(fs, scope) == \A i \in 1..Len(fs) : fs[i].Scope = scope

\* C10: a filter is evaluated against its scoped text only: a title filter
\* does not read the description, a content filter does not read the title,
\* an "all" filter reads title + " " + description; a literal filter
\* matches when its value occurs in that text, case disregarded.
C10_ScopedText ==
    Evaluated =>
        /\ \A i \in 1..Len(flist) :
              LET f == flist[i] IN
              /\ f.Scope = ScopeTitle =>
                    \A d \in MatchDescriptions :
                        matchesFilter([item EXCEPT !.Description = d], f)
                            <=> matchesFilter(item, f)
              /\ f.Scope = ScopeContent =>
                    \A t \in MatchTitles :
                        matchesFilter([item EXCEPT !.Title = t], f)
                            <=> matchesFilter(item, f)
              /\ f.Scope = ScopeAll =>
                    (matchesFilter(item, f) <=>
                        matchesFilter(
                            [Title |-> item.Title \o <<" ">> \o item.Description,
                             Description |-> <<>>],
                            [f EXCEPT !.Scope = ScopeTitle]))
              /\ IsLiteralKind(f) =>
                    (matchesFilter(item, f) <=>
                        ContainsFold(ScopedText(item, f.Scope), f.Value))
        /\ AllScoped(flist, ScopeTitle) =>
              \A d \in MatchDescriptions :
                  Match([item EXCEPT !.Description = d], flist) <=> Passed
        /\ AllScoped(flist, ScopeContent) =>
              \A t \in MatchTitles :
                  Match([item EXCEPT !.Title = t], flist) <=> Passed

\* a title filter whose value stands in the description only, and an "all"
\* filter whose value spans title and description
C10_Witness ==
    /\ verdict = "reject"
    /\ Len(flist) = 2
    /\ flist[1].Kind = FilterInclude /\ flist[1].Scope = ScopeAll
    /\ Len(flist[1].Value) = 3
    /\ matchesFilter(item, flist[1])
    /\ flist[2].Kind = FilterExclude /\ flist[2].Scope = ScopeContent
    /\ matchesFilter(item, flist[2])
    /\ ~ContainsFold(item.Title, flist[2].Value)

(***************************************************************************)
(* Properties of the due-feed query (checked under SpecDue).               *)
(***************************************************************************)
Listed == hist.phase = "listed"

DueIds == {due[i].ID : i \in 1..Len(due)}

\* the due-feed predicate on the clock itself: active, and never checked or
\* last checked interval_minutes * 60 seconds ago or earlier
IsDueAt(row, t) ==
    /\ row.IsActive
    /\ \/ row.LastCheckAt = NULL
       \/ (row.LastCheckAt + row.IntervalMinutes * 60) * TicksPerSecond <= t

\* C6: ListDueFeeds at time now returns exactly the feeds that are active
\* and (never checked or last_check_at + interval_minutes * 60 s <= now),
\* each once and as stored, each judged by its own interval: a feed checked
\* interval + 1 s ago is returned, one checked interval - 1 s ago is not.
C6_ListDueFeedsExact ==
    Listed =>
        /\ \A id \in DOMAIN feeds : id \in DueIds <=> IsDueAt(feeds[id], now)
        /\ \A i \in 1..Len(due) :
              /\ due[i].ID \in DOMAIN feeds
              /\ due[i] = scanFeed(feeds, due[i].ID)
        /\ \A i, j \in 1..Len(due) : due[i].ID = due[j].ID => i = j
        /\ \A id \in DOMAIN feeds :
              LET row == feeds[id]
                  dueAt == row.LastCheckAt + row.IntervalMinutes * 60
              IN  (row.IsActive /\ row.LastCheckAt # NULL) =>
                    /\ now = (dueAt + 1) * TicksPerSecond => id \in DueIds
                    /\ now = (dueAt - 1) * TicksPerSecond => id \notin DueIds

\* two active feeds checked at the same time: the one whose interval ends
\* at this very second is returned, the one with the longer interval is not
C6_Witness ==
    /\ Listed
    /\ \E f, g \in DOMAIN feeds :
          /\ feeds[f].IsActive /\ feeds[g].IsActive
          /\ feeds[f].LastCheckAt # NULL
          /\ feeds[g].LastCheckAt = feeds[f].LastCheckAt
          /\ feeds[f].IntervalMinutes < feeds[g].IntervalMinutes
          /\ Format(now) = feeds[f].LastCheckAt + feeds[f].IntervalMinutes * 60
          /\ f \in DueIds
          /\ g \notin DueIds

(***************************************************************************)
(* Properties of the scheduler (checked under Spec).                       *)
(***************************************************************************)
\* processFeed has returned and checkAll is back at the head of its loop
Returned == pc = "loop" /\ hist.phase = "returned"

\* no store call of the scheduler has failed so far
LedgerHealthy == ~hist.ledgerFailed

\* no store call of the processFeed that returned has failed
ProcessHealthy == ~hist.procFailed

Distinct(q) == \A i, j \in 1..Len(q) : q[i] = q[j] => i = j

\* the GUIDs of the fetched items, in the order of the fetch
FetchedGUIDs == [i \in 1..Len(rssItems) |-> ItemGUID(rssItems[i])]

\* the messages the processFeed that returned has sent
NewSent == SubSeq(sent[cur.ID], hist.sent0 + 1, Len(sent[cur.ID]))

\* the feed's persisted last-checked time lies within the cycle
LastCheckedInCycle ==
    /\ cur.ID \in DOMAIN feeds
    /\ feeds[cur.ID].LastCheckAt >= Format(hist.cycleStart)
    /\ feeds[cur.ID].LastCheckAt <= Format(now)

\* C1: while every store call succeeds (and nothing but the scheduler writes
\* to the store), no (feed, GUID) is sent twice, be the GUID twice in one
\* fetch or again in a later fetch.
C1_SentAtMostOnce ==
    LedgerHealthy =>
        \A f \in DOMAIN sent :
            \A i, j \in 1..Len(sent[f]) :
                sent[f][i].GUID = sent[f][j].GUID => i = j

\* a fetch that held the same GUID twice, one of them sent now, on a feed
\* that had sent another item in an earlier cycle
C1_Witness ==
    /\ Returned
    /\ LedgerHealthy
    /\ Len(matched) = 2
    /\ matched[1].GUID = matched[2].GUID
    /\ hist.sent0 = 1
    /\ Len(NewSent) = 1

\* C2: an active due feed without filters whose fetch returns N items with
\* distinct GUIDs, none of them seen: the cycle sends exactly N
\* notifications (one per item, in order, to the feed's chat), adds exactly
\* those N pairs to the seen-set and sets last-checked to the time of the
\* cycle.  (The store calls of the processing succeed.)
C2_AllNewItemsDelivered ==
    ( /\ Returned
      /\ ProcessHealthy
      /\ hist.fetch = "ok"
      /\ hist.filt = "ok"
      /\ hist.filters = <<>>
      /\ cur.IsActive
      /\ Distinct(FetchedGUIDs)
      /\ \A i \in 1..Len(rssItems) : <<cur.ID, FetchedGUIDs[i]>> \notin hist.seen0 )
    =>
        /\ Len(NewSent) = Len(rssItems)
        /\ \A i \in 1..Len(NewSent) :
              /\ NewSent[i].GUID = FetchedGUIDs[i]
              /\ NewSent[i].ChatID = feeds[cur.ID].ChatID
        /\ seen = hist.seen0 \cup
                  {<<cur.ID, FetchedGUIDs[i]>> : i \in 1..Len(rssItems)}
        /\ LastCheckedInCycle

\* MaxItems new items, one of them already seen by another feed
C2_Witness ==
    /\ Returned
    /\ ProcessHealthy
    /\ hist.filt = "ok"
    /\ hist.filters = <<>>
    /\ Len(rssItems) = MaxItems
    /\ Distinct(FetchedGUIDs)
    /\ \A i \in 1..Len(rssItems) : <<cur.ID, FetchedGUIDs[i]>> \notin hist.seen0
    /\ \E e \in hist.seen0 : e[1] # cur.ID /\ e[2] = FetchedGUIDs[1]
    /\ Len(NewSent) = MaxItems

\* C3: an item whose (feed, GUID) is in the seen-set is not delivered; when
\* every fetched GUID was seen before, the cycle sends nothing, adds no
\* seen-entry, and last-checked still advances (the store calls of the
\* processing succeeding).
C3_SeenItemsSkipped ==
    Returned =>
        /\ \A i \in 1..Len(NewSent) : <<cur.ID, NewSent[i].GUID>> \notin hist.seen0
        /\ ( /\ hist.fetch = "ok"
             /\ \A i \in 1..Len(rssItems) : <<cur.ID, FetchedGUIDs[i]>> \in hist.seen0 )
           =>
             /\ NewSent = <<>>
             /\ seen = hist.seen0
             /\ (hist.filt = "ok" /\ ProcessHealthy) => LastCheckedInCycle

\* a fetch of MaxItems items that survive the filters, all seen before
C3_Witness ==
    /\ Returned
    /\ ProcessHealthy
    /\ Len(rssItems) = MaxItems
    /\ Len(matched) = MaxItems
    /\ Distinct(FetchedGUIDs)
    /\ \A i \in 1..Len(rssItems) : <<cur.ID, FetchedGUIDs[i]>> \in hist.seen0
    /\ NewSent = <<>>
    /\ feeds[cur.ID].LastCheckAt > 0

\* C4: when the fetch of a due feed fails, the cycle sends nothing for the
\* feed, adds no seen-entry, and still sets last-checked to the time of the
\* cycle (the UpdateFeed call succeeding).
C4_FetchErrorStillAdvances ==
    (Returned /\ hist.fetch = "err") =>
        /\ NewSent = <<>>
        /\ seen = hist.seen0
        /\ hist.filt = "none"
        /\ ProcessHealthy => LastCheckedInCycle

\* the fetch of a feed with unseen history fails in a later cycle
C4_Witness ==
    /\ Returned
    /\ hist.fetch = "err"
    /\ ProcessHealthy
    /\ cur.LastCheckAt > 0
    /\ feeds[cur.ID].LastCheckAt = Format(now)

\* C5: when ListFilters fails after a fetch that succeeded, the cycle sends
\* nothing for the feed, adds no seen-entry, leaves last-checked as it was
\* (the feed is still due), and checkAll is back at the head of its loop
\* with the due feeds that came after this one.
C5_FilterErrorLeavesFeedDue ==
    (hist.phase = "returned" /\ hist.filt = "err") =>
        /\ hist.fetch = "ok"
        /\ NewSent = <<>>
        /\ seen = hist.seen0
        /\ feeds[cur.ID] = [f \in DOMAIN feeds[cur.ID] |-> cur[f]]
        /\ dueRow(feeds[cur.ID], Format(now))
        /\ pc = "loop"
        /\ due = hist.rest

\* the filters of the first of two due feeds cannot be loaded
C5_Witness ==
    /\ Returned
    /\ hist.filt = "err"
    /\ ~cancelled
    /\ rssItems # <<>>
    /\ due # <<>>

(***************************************************************************)
(* Properties of the store (checked under SpecStore).                      *)
(***************************************************************************)
\* C11: MarkSeen returns no error on its first and on its second call for a
\* pair, the second call leaves the seen-set as the first left it, and
\* IsSeen says true for exactly the pairs MarkSeen was called for (since
\* their feed was last deleted): true after either call, false before.
C11_MarkSeenIdempotent ==
    /\ \A f \in FeedIds, g \in StoreGUIDs :
          IsSeen(seen, f, g) <=> <<f, g>> \in hist.marked
    /\ hist.op = "MarkSeen" =>
          /\ ~hist.err
          /\ IsSeen(seen, hist.feedID, hist.guid)
          /\ seen = hist.pre.seen \cup {<<hist.feedID, hist.guid>>}
          /\ hist.repeat => seen = hist.pre.seen
    /\ hist.op = "IsSeen" =>
          hist.result = (<<hist.feedID, hist.guid>> \in hist.marked)

\* MarkSeen called twice in a row for a pair, other pairs being marked
C11_Witness ==
    /\ hist.op = "MarkSeen"
    /\ hist.repeat
    /\ ~hist.err
    /\ Cardinality(seen) >= 2
    /\ \E f \in FeedIds, g \in StoreGUIDs : ~IsSeen(seen, f, g)

(***************************************************************************)
(* More properties of the scheduler (checked under Spec).                  *)
(***************************************************************************)
\* the messages of NewSent that carry the GUID g
NewSentOf(g) == {i \in 1..Len(NewSent) : NewSent[i].GUID = g}

\* C12: the seen-set is keyed by (feed, GUID): a feed has a seen-entry only
\* for a GUID that was sent for that very feed, and an item whose GUID is
\* seen for another feed but not for the feed being processed is sent, once,
\* for that feed too (the store calls of the processing succeeding).
C12_SeenKeyedByFeedAndGUID ==
    /\ \A e \in seen :
          \E i \in 1..Len(sent[e[1]]) : sent[e[1]][i].GUID = e[2]
    /\ (Returned /\ ProcessHealthy /\ hist.filt = "ok") =>
          \A i \in 1..Len(matched) :
              ( /\ <<cur.ID, matched[i].GUID>> \notin hist.seen0
                /\ \E e \in hist.seen0 : e[1] # cur.ID /\ e[2] = matched[i].GUID )
              => /\ Cardinality(NewSentOf(matched[i].GUID)) = 1
                 /\ IsSeen(seen, cur.ID, matched[i].GUID)

\* the same GUID has been sent for one feed and now for the other
C12_Witness ==
    /\ Returned
    /\ ProcessHealthy
    /\ LedgerHealthy
    /\ \E i \in 1..Len(matched) :
          /\ <<cur.ID, matched[i].GUID>> \notin hist.seen0
          /\ \E e \in hist.seen0 : e[1] # cur.ID /\ e[2] = matched[i].GUID
          /\ \A f \in FeedIds : \E k \in 1..Len(sent[f]) : sent[f][k].GUID = matched[i].GUID

\* C13: a cycle that starts after cancellation was requested processes no
\* feed: processFeed is not entered (no fetch), and the messages sent, the
\* seen-set and the feeds (their last-checked times) stay as they were when
\* the cycle began.
C13_CancelledCycleDoesNothing ==
    hist.startCancelled =>
        /\ pc \in {"loop", "wait", "stopped"}
        /\ hist.phase = "none"
        /\ cur = NoCur
        /\ rssItems = <<>>
        /\ <<feeds, seen, sent>> = hist.cycle0

\* a cycle began after cancellation, ListDueFeeds still returned a due feed,
\* and the cycle is over
C13_Witness ==
    /\ hist.startCancelled
    /\ pc = "wait"
    /\ ~hist.ledgerFailed
    /\ \E f \in DOMAIN feeds : dueRow(feeds[f], Format(hist.cycleStart))

\* C15: a feed whose active flag is false is not among the feeds
\* ListDueFeeds returned, whatever its last-checked time; processFeed does
\* not run for it, no message is sent for it, and no step changes its row.
C15_InactiveFeedUntouched ==
    /\ [](\A f \in DOMAIN feeds :
            ~feeds[f].IsActive =>
                /\ \A i \in 1..Len(due) : due[i].ID # f
                /\ cur.ID # f
                /\ sent[f] = <<>>
                /\ \A e \in seen : e[1] # f)
    /\ [][\A f \in DOMAIN feeds :
            ~feeds[f].IsActive => feeds'[f] = feeds[f]]_vars

\* a paused feed whose interval has passed since its last check, in a cycle
\* that has just processed another feed
C15_Witness ==
    /\ Returned
    /\ hist.fetch = "ok"
    /\ \E f \in DOMAIN feeds :
          /\ ~feeds[f].IsActive
          /\ feeds[f].LastCheckAt # NULL
          /\ sqlDatetimeAddMinutes(feeds[f].LastCheckAt, feeds[f].IntervalMinutes)
                <= Format(hist.cycleStart)
          /\ cur.ID # f


(***************************************************************************)
(* DeleteFeed is all-or-nothing and touches one feed only (SpecStore).     *)
(***************************************************************************)
\* the rows of feed f in the three tables of the store st
RowsOf(st, f) ==
    [feed    |-> IF f \in DOMAIN st.feeds THEN <<st.feeds[f]>> ELSE <<>>,
     filters |-> IF f \in DOMAIN st.filters THEN st.filters[f] ELSE <<>>,
     seen    |-> {e \in st.seen : e[1] = f}]

NoRows == [feed |-> <<>>, filters |-> <<>>, seen |-> {}]

\* C17: after a call of DeleteFeed(f), either no error was returned and the
\* feed row, every filter and every seen item of f are gone, or an error was
\* returned and the three tables are what they were before the call (whatever
\* statement failed); in both cases the row, the filters and the seen items
\* of every other feed are what they were before the call.
C17_DeleteFeedAtomic ==
    hist.op = "DeleteFeed" =>
        /\ ~hist.err => RowsOf(TheStore, hist.feedID) = NoRows
        /\ hist.err  => TheStore = hist.pre
        /\ hist.err <=> hist.failAt # "none"
        /\ \A f \in FeedIds \ {hist.feedID} :
               RowsOf(TheStore, f) = RowsOf(hist.pre, f)
        /\ {e[1] : e \in seen} \ {hist.feedID} =
               {e[1] : e \in hist.pre.seen} \ {hist.feedID}

\* a feed with a row, a filter and two seen items was deleted while another
\* feed had a row, a filter and a seen item
C17_Witness ==
    /\ hist.op = "DeleteFeed"
    /\ ~hist.err
    /\ RowsOf(hist.pre, hist.feedID).feed # <<>>
    /\ RowsOf(hist.pre, hist.feedID).filters # <<>>
    /\ Cardinality(RowsOf(hist.pre, hist.feedID).seen) = 2
    /\ \E f \in FeedIds \ {hist.feedID} :
          /\ RowsOf(TheStore, f).feed # <<>>
          /\ RowsOf(TheStore, f).filters # <<>>
          /\ RowsOf(TheStore, f).seen # {}

(***************************************************************************)
(* The scheduler beside the commands of the bot (checked under SpecCmd).   *)
(***************************************************************************)
\* the step of updateLastCheck
LastCheckUpdate == pc = "update" /\ pc' = "loop"

\* C16: the scheduler's last-checked update changes no field of any feed
\* other than last-checked, also when a command has written the feed's
\* name, interval or active flag since the cycle read the feed.
C16_SchedulerWritesOnlyLastCheck ==
    [][LastCheckUpdate =>
          \A f \in DOMAIN feeds :
              /\ f \in DOMAIN feeds'
              /\ [feeds'[f] EXCEPT !.LastCheckAt = feeds[f].LastCheckAt] = feeds[f]]_vars


(***************************************************************************)
(* The interval of a feed stays within its limits (SpecCmd).               *)
(***************************************************************************)
IntervalOK(n) == n \in MinInterval..MaxIntervalMinutes

\* "/interval <id> <minutes>" with a number of minutes outside the limits
OutsideLimits(args) ==
    /\ Len(Fields(args)) >= 2
    /\ ~Atoi(Fields(args)[2]).err
    /\ ~IntervalOK(Atoi(Fields(args)[2]).val)

OutsideArgs == {a \in IntervalArgs : OutsideLimits(a)}

\* C18: whatever commands (add, interval, rename, pause, resume) and
\* scheduler cycles have run, every feed of the store has interval_minutes
\* in 1..1440, and so has the copy a handler is about to write; a feed that
\* has just been added has interval 15; and an interval command whose number
\* of minutes is outside 1..1440 ends with a reply, no write to the store
\* following and the feeds unchanged.
C18_IntervalWithinLimits ==
    /\ [](/\ \A f \in DOMAIN feeds : IntervalOK(feeds[f].IntervalMinutes)
          /\ cmd.op # "idle" => IntervalOK(cmd.feed.IntervalMinutes))
    /\ [][\A f \in (DOMAIN feeds') \ (DOMAIN feeds) :
              feeds'[f].IntervalMinutes = DefaultInterval]_vars
    /\ [][(cmd.op = "idle" /\ cmd' # cmd) =>
              \A c \in ChatIDs, a \in OutsideArgs :
                  handleInterval(c, a) => (feeds' = feeds /\ cmd'.op = "idle")]_vars

\* a feed has been added with interval 15, the interval of another has been
\* set to the upper limit 1440, and the scheduler has checked a feed since
C18_Witness ==
    /\ \E f \in DOMAIN feeds : feeds[f].IntervalMinutes = MaxIntervalMinutes
    /\ \E f \in DOMAIN feeds :
          /\ feeds[f].IntervalMinutes = DefaultInterval
          /\ f # 1
    /\ \E f \in DOMAIN feeds : feeds[f].LastCheckAt # NULL
    /\ Cardinality(OutsideArgs) >= 2


(***************************************************************************)
(* Truncation of descriptions (SpecFilterItems).                           *)
(***************************************************************************)
\* the first n characters of s
FirstChars(s, n) ==
    LET starts == RuneStarts(s)
    IN  IF Cardinality(starts) <= n THEN s
        ELSE LET p == CHOOSE p \in starts :
                          Cardinality({i \in starts : i < p}) = n
             IN  SubSeq(s, 1, p - 1)

Ellipsis == <<".", ".", ".">>

\* C19: the description of every item FilterItems returns is the source
\* description when the source has at most 300 characters, and the first 300
\* characters of the source followed by "..." otherwise; so it has at most
\* 303 characters and differs from the source only when the source has more
\* than 300 characters.
C19_DescriptionTruncatedAt300Characters ==
    verdict = "filtered" =>
        \A i \in 1..Len(matched) :
            LET src == rssItems[i].Description
                out == matched[i].Description
            IN  /\ out = IF RuneCount(src) <= DescLimit THEN src
                         ELSE FirstChars(src, DescLimit) \o Ellipsis
                /\ RuneCount(out) <= DescLimit + 3
                /\ out # src => RuneCount(src) > DescLimit


(***************************************************************************)
(* The identity of an item (SpecIdentity).                                 *)
(***************************************************************************)
GuidPrefix == <<"s", "h", "a", "2", "5", "6", ":">>

LowerHex ==
    {"0", "1", "2", "3", "4", "5", "6", "7", "8", "9",
     "a", "b", "c", "d", "e", "f"}

\* the first 16 bytes of SHA-256("a|l") and of SHA-256("b|l") in lowercase
\* hexadecimal digits (FIPS 180-4)
ReferenceDigest(title) ==
    CASE title = <<"a">> ->
             <<"7", "c", "b", "c", "f", "0", "1", "5", "a", "4", "1", "d", "b", "d", "9", "9",
               "b", "d", "4", "6", "2", "5", "1", "b", "6", "d", "3", "b", "c", "d", "a", "d">>
      [] title = <<"b">> ->
             <<"1", "4", "c", "1", "5", "c", "d", "4", "7", "2", "6", "9", "1", "8", "c", "2",
               "e", "c", "8", "1", "1", "1", "a", "c", "6", "2", "2", "b", "f", "d", "b", "7">>

\* items i and j of the fetch have no GUID and the same title and link
SameTitleAndLink(i, j) ==
    /\ rssItems[i].GUID = <<>>
    /\ rssItems[j].GUID = <<>>
    /\ rssItems[i].Title = rssItems[j].Title
    /\ rssItems[i].Link = rssItems[j].Link

\* C20: the GUID FilterItems gives an item is the item's own GUID when it
\* has one, and otherwise "sha256:" followed by the 32 lowercase hexadecimal
\* digits of the first 16 bytes of SHA-256(title|link); items with the same
\* raw GUID, title and link get the same GUID whatever their descriptions.
\* When a fetch holds two items without GUID that have the same title and
\* link and every store call of the processFeed succeeds, no message is sent
\* for them when their GUID was seen before, and otherwise one message, the
\* one of the first item with that GUID.
C20_ItemGUIDDerivation ==
    /\ hist.filt = "ok" =>
          /\ Len(matched) = Len(rssItems)
          /\ \A i \in 1..Len(rssItems) :
                LET it == rssItems[i]
                    g  == matched[i].GUID
                IN  /\ it.GUID # <<>> => g = it.GUID
                    /\ it.GUID = <<>> =>
                          /\ g = GuidPrefix \o ReferenceDigest(it.Title)
                          /\ Len(g) = Len(GuidPrefix) + 32
                          /\ \A k \in (Len(GuidPrefix) + 1)..Len(g) :
                                 g[k] \in LowerHex
                    /\ \A j \in 1..Len(rssItems) :
                          (/\ rssItems[j].GUID = it.GUID
                           /\ rssItems[j].Title = it.Title
                           /\ rssItems[j].Link = it.Link)
                              => matched[j].GUID = g
    /\ (Returned /\ ProcessHealthy /\ hist.filt = "ok") =>
          \A i, j \in 1..Len(rssItems) :
              (i < j /\ SameTitleAndLink(i, j)) =>
                  LET g     == matched[i].GUID
                      first == CHOOSE k \in 1..Len(matched) :
                                  /\ matched[k].GUID = g
                                  /\ \A m \in 1..(k - 1) : matched[m].GUID # g
                      msgs  == {k \in 1..Len(NewSent) : NewSent[k].GUID = g}
                  IN  /\ Cardinality(msgs) <= 1
                      /\ <<cur.ID, g>> \in hist.seen0 => msgs = {}
                      /\ <<cur.ID, g>> \notin hist.seen0 =>
                             /\ Cardinality(msgs) = 1
                             /\ \A k \in msgs :
                                    NewSent[k] = Notification(cur, matched[first])

\* a fetch has returned two items without GUID that differ in the
\* description only; the first has been sent, the second has not
C20_Witness ==
    /\ Returned
    /\ ProcessHealthy
    /\ hist.filt = "ok"
    /\ Len(rssItems) = 2
    /\ SameTitleAndLink(1, 2)
    /\ rssItems[1].Description # rssItems[2].Description
    /\ Len(NewSent) = 1
    /\ NewSent[1].GUID = GuidPrefix \o ReferenceDigest(<<"b">>)
    /\ NewSent[1].Description = rssItems[1].Description


(***************************************************************************)
(* One cycle of checkAll over several feeds (Spec).                        *)
(***************************************************************************)
\* processFeed is running
InProcessFeed == pc \in {"fetch", "filters", "items", "send", "mark", "update"}

\* C21: while ctx is not cancelled, the feeds ListDueFeeds returned to the
\* cycle are, each once, the feeds processFeed has been called with followed
\* by the feeds still to come, whatever has failed in the processFeed calls
\* made so far (the fetch, ListFilters, IsSeen, MarkSeen, UpdateFeed); so at
\* the end of the cycle every returned feed has been attempted exactly once.
\* No step of processFeed changes the feeds still to come, and processFeed
\* ends at the head of checkAll's loop, never outside the cycle.
C21_FailureDoesNotStopCycle ==
    /\ [](~cancelled =>
             /\ Distinct(hist.returned)
             /\ hist.returned = hist.attempted \o IDs(due))
    /\ [][InProcessFeed =>
             /\ due' = due
             /\ InProcessFeed' \/ pc' = "loop"]_vars

\* the cycle is over: the first of two due feeds has failed, the second has
\* been processed all the same
C21_Witness ==
    /\ pc = "loop"
    /\ due = <<>>
    /\ ~cancelled
    /\ Len(hist.returned) = 2
    /\ hist.attempted = hist.returned
    /\ hist.attempted[1] \in hist.failedFeeds
    /\ hist.phase = "returned"
    /\ cur.ID = hist.attempted[2]
    /\ cur.ID \notin hist.failedFeeds


(***************************************************************************)
(* The order of ListDueFeeds (SpecCmd: feeds are added while the scheduler *)
(* runs).                                                                  *)
(***************************************************************************)
\* the first statement of checkAll has run and returned a list
DueFeedsListed == pc \in {"run", "wait"} /\ pc' = "loop"

UpdateReceived == cmd'.n = cmd.n + 1

FeedCommands ==
    {"info", "remove", "rename", "interval", "pause", "resume", "check",
     "filters", "include", "exclude", "include_re", "exclude_re"}

\* the feed an update names: the feed id of its arguments or of its button,
\* or the feed of the filter it names; 0 when it names none
NamedFeed(u) ==
    LET args == TrimSpace(u.args)
        parts == SplitColon2(u.data)
        a == CASE u.kind = "command" /\ u.command = "rename" ->
                     ParseRenameArgs(args)
               [] u.kind = "command" /\ u.command = "interval" ->
                     ParseIntervalArgs(args)
               [] u.kind = "command" /\ u.command \in FilterKinds ->
                     ParseFilterCommand(args)
               [] u.kind = "command" /\ u.command \in FeedCommands \cup {"rmfilter"} ->
                     ParseIDArg(args)
               [] u.kind = "callback" /\ Len(parts) = 2
                  /\ parts[1] \in {cmdFilters, cmdCheck, cmdDeleteConfirm,
                                   cmdDelete, cmdRmFilter} ->
                     [err |-> Atoi(parts[2]).err, id |-> Atoi(parts[2]).val]
               [] OTHER -> [err |-> TRUE, id |-> 0]
        byFilter == \/ u.kind = "command" /\ u.command = "rmfilter"
                    \/ u.kind = "callback" /\ Len(parts) = 2
                       /\ parts[1] = cmdRmFilter
    IN  IF a.err THEN 0
        ELSE IF byFilter THEN GetFilter(filters, a.id).FeedID
        ELSE a.id

\* the update names a feed, or a filter of a feed, of another chat
NamesForeignFeed(u) ==
    /\ NamedFeed(u) \in DOMAIN feeds
    /\ feeds[NamedFeed(u)].ChatID # u.chat

\* the update reaches a handler: callback queries always do, commands do
\* when the user passes the allow-list
ReachesHandler(u) == u.kind = "callback" \/ IsUserAllowed(cfg, u.user)

\* C23: a command or callback that names a feed or a filter of another chat
\* and reaches its handler is answered "not found", the handler is over
\* with that reply, and tables feeds, filters and seen_items stay as they are.
C23_ForeignFeedNotFound ==
    [][(UpdateReceived /\ NamesForeignFeed(update') /\ ReachesHandler(update'))
          => /\ cmd'.reply = "notfound"
             /\ cmd'.op = "idle"
             /\ feeds' = feeds /\ filters' = filters /\ seen' = seen]_vars

C23_Witness ==
    /\ update.kind = "callback"
    /\ SplitColon2(update.data)[1] = cmdRmFilter
    /\ NamesForeignFeed(update)
    /\ cmd.reply = "notfound"
    /\ cmd.n = 2

\* the user of the update is outside a non-empty allow-list
UserNotListed(u) == cfg.AllowedUsers # {} /\ u.user \notin cfg.AllowedUsers

\* C24: with a non-empty allow-list, an update of a user who is not in the
\* list is not acted on, be it a command or a callback query: no handler
\* runs (at most "Access denied." is sent) and the store is unchanged; with
\* an empty list every user is allowed.
C24_UnlistedUserNotActedOn ==
    /\ [][(UpdateReceived /\ UserNotListed(update'))
             => /\ cmd'.reply \in {"denied", "none"}
                /\ cmd'.op = "idle"
                /\ UNCHANGED storeVars]_vars
    /\ [](cfg.AllowedUsers = {} => \A usr \in UserIDs : IsUserAllowed(cfg, usr))

(***************************************************************************)
(* Delivery and the ledger (checked under Spec).                           *)
(***************************************************************************)
\* C25: no (feed, GUID) is sent a second time, in the same cycle or in a
\* later one, whether or not an IsSeen or MarkSeen call has failed.
C25_NeverSentTwice ==
    \A f \in DOMAIN sent :
        \A i \in 1..Len(sent[f]) :
            \A j \in (i + 1)..Len(sent[f]) : sent[f][j].GUID # sent[f][i].GUID

(***************************************************************************)
(* Forced checks beside the scheduler (checked under SpecCheck).           *)
(***************************************************************************)
\* the messages sent for feed f that carry the GUID g, by processFeed and
\* by handleCheck together
SentOf(f, g) == {i \in 1..Len(sent[f]) : sent[f][i].GUID = g}

\* C26: with forced checks of a feed running beside the scheduler's cycles,
\* every (feed, GUID) is delivered at most once in total: handleCheck and
\* processFeed never both send it.
C26_CheckAndCycleSendOnce ==
    \A f \in DOMAIN sent :
        \A i \in 1..Len(sent[f]) : Cardinality(SentOf(f, sent[f][i].GUID)) <= 1

(***************************************************************************)
(* Cancellation inside processFeed (checked under Spec).                   *)
(***************************************************************************)
\* ctx was cancelled while the processFeed that has returned was at work
CancelledInFlight == Returned /\ hist.cancelFeed = cur.ID

\* C27: a feed that is being processed when cancellation is requested is
\* processed to its end as if nothing had happened: with a fetch that
\* returns and a store that does not fail of its own, the filters are
\* loaded, every matched item that was not seen is sent and marked seen,
\* and last-checked is set; the feeds not yet started are skipped.
C27_InFlightFeedNotInterrupted ==
    (CancelledInFlight /\ hist.fetch = "ok" /\ faults = 0) =>
        /\ hist.filt = "ok"
        /\ \A i \in 1..Len(matched) :
              <<cur.ID, matched[i].GUID>> \notin hist.seen0 =>
                  /\ NewSentOf(matched[i].GUID) # {}
                  /\ IsSeen(seen, cur.ID, matched[i].GUID)
        /\ LastCheckedInCycle
        /\ due = hist.rest

(***************************************************************************)
(* Delivery failures (checked under SpecDelivery).                         *)
(***************************************************************************)
\* the item processFeed is sending or marking
InHand == <<cur.ID, matched[idx].GUID>>

\* C28: for each unseen matched item processFeed calls SendMessage and then
\* MarkSeen, also when Telegram did not take the message; so an item whose
\* delivery failed is in the seen-set once its MarkSeen has been made, and
\* no further message is sent for it.
C28_MarkSeenWhateverTheDelivery ==
    /\ [][(pc = "send" /\ pc' # pc) =>
             /\ pc' = "mark"
             /\ InHand \notin seen
             /\ seen' = seen
             /\ sent'[cur.ID] = Append(sent[cur.ID],
                                       Notification(cur, matched[idx]))]_vars
    /\ [][(pc = "mark" /\ pc' # pc) =>
             /\ pc' = "items"
             /\ sent' = sent
             /\ seen' = seen \cup {InHand}]_vars
    /\ [](\A e \in hist.lost :
             /\ e \in seen \/ (pc = "mark" /\ e = InHand)
             /\ Cardinality(SentOf(e[1], e[2])) = 1)

\* a message was lost in an earlier cycle, and a later cycle has fetched the
\* item again and has sent nothing
C28_Witness ==
    /\ Returned
    /\ hist.fetch = "ok"
    /\ hist.sent0 = 1
    /\ Len(sent[cur.ID]) = 1
    /\ <<cur.ID, sent[cur.ID][1].GUID>> \in hist.lost
    /\ \E i \in 1..Len(matched) : matched[i].GUID = sent[cur.ID][1].GUID

(***************************************************************************)
(* The order of the notifications (checked under Spec).                    *)
(***************************************************************************)
\* s is t with some of its elements left out: the elements of s appear in t
\* in the order of s
RECURSIVE IsSubSeqFrom(_, _, _, _)
IsSubSeqFrom(s, t, i, j) ==
    IF i > Len(s) THEN TRUE
    ELSE IF j > Len(t) THEN FALSE
    ELSE IF s[i] = t[j] THEN IsSubSeqFrom(s, t, i + 1, j + 1)
    ELSE IsSubSeqFrom(s, t, i, j + 1)

\* the notifications of the fetched items, in the order of the fetch
FetchedNotifications ==
    [i \in 1..Len(rssItems) |-> Notification(cur, MatchedItem(rssItems[i]))]

CheckAllCalled == (pc = "run" /\ pc' # pc) \/ hist'.taken # hist.taken

\* checkAll calls processFeed in this step
ProcessFeedCalled == pc # "fetch" /\ pc' = "fetch"

\* C30: the first cycle begins at once, before any tick; every later cycle
\* begins with a tick taken from the ticker, so there is at most one cycle
\* per tick; a cycle begins only when the one before has ended, and
\* processFeed is called only when the call before has returned.
C30_OneCyclePerTickOneFeedAtATime ==
    /\ [](pc = "run" => hist.ticks = 0 /\ hist.taken = 0)
    /\ []((hist.taken = 0 /\ pc \notin {"run", "wait", "stopped"})
             => hist.ticks = 0)
    /\ [][(pc = "run" /\ pc' # pc) =>
             /\ hist'.cycleStart = now
             /\ \/ pc' = "loop" /\ due' = ListDueFeeds(feeds, now)
                \/ pc' = "wait" /\ cancelled]_vars
    /\ [](hist.taken <= hist.ticks)
    /\ [][(pc = "wait" /\ pc' = "loop") => hist'.taken = hist.taken + 1]_vars
    /\ [][hist'.taken # hist.taken =>
             /\ hist.pending /\ ~hist'.pending
             /\ hist'.taken = hist.taken + 1]_vars
    /\ [][CheckAllCalled =>
             /\ pc \in {"run", "wait"}
             /\ due = <<>> /\ cur = NoCur /\ hist.phase = "none"]_vars
    /\ [][ProcessFeedCalled =>
             /\ pc = "loop"
             /\ hist.phase \in {"none", "returned"}
             /\ cur' = Head(due) /\ due' = Tail(due)]_vars

\* three ticks, one of them dropped, and in the second cycle after the
\* first the second of two feeds has been processed
C30_Witness ==
    /\ hist.ticks = 3
    /\ hist.taken = 2
    /\ Returned
    /\ Len(hist.attempted) = 2

(***************************************************************************)
(* Failures and the loop of Run (checked under SpecTickLive).              *)
(***************************************************************************)
\* C31: Run leaves its loop only when ctx is cancelled; whatever fails in
\* a cycle (ListDueFeeds, the fetch, ListFilters, IsSeen, MarkSeen,
\* UpdateFeed), the cycle ends with Run back in its select, and a tick that
\* waits there is taken and begins the next cycle, unless ctx is cancelled.
C31_FailureDoesNotStopLoop ==
    /\ [](pc = "stopped" => cancelled)
    /\ [][(pc = "loop" \/ InProcessFeed) =>
             (pc' = "loop" \/ pc' = "wait" \/ InProcessFeed')]_vars
    /\ (pc \notin {"wait", "stopped"}) ~> (pc = "wait")
    /\ \A k \in 0..(MaxTicks - 1) :
          (pc = "wait" /\ hist.pending /\ hist.taken = k)
              ~> (hist.taken = k + 1 \/ cancelled)

\* a store call has failed, and a later tick has begun the cycle after the
\* next all the same
C31_Witness ==
    /\ hist.ledgerFailed
    /\ ~cancelled
    /\ hist.taken = 2
    /\ pc = "fetch"

(***************************************************************************)
(* The interval between two fetches of a feed (checked under Spec, where   *)
(* nothing but the scheduler writes to table feeds).                       *)
(***************************************************************************)
\* the persisted row of feed f says that its interval has not elapsed at
\* time t
WithinInterval(f, t) ==
    /\ feeds[f].LastCheckAt # NULL
    /\ Format(t) < sqlDatetimeAddMinutes(feeds[f].LastCheckAt,
                                         feeds[f].IntervalMinutes)

\* C32: a feed whose persisted last-checked time is t is not handed to a
\* cycle by ListDueFeeds, and its fetch is not attempted, before t plus its
\* interval, whether the fetch before succeeded or failed; so a feed whose
\* fetch always fails is fetched at most once per interval.  A step of
\* processFeed sets last-checked only to the time of that step.
C32_NoFetchWithinInterval ==
    /\ [][DueFeedsListed =>
             \A i \in 1..Len(due') : ~WithinInterval(due'[i].ID, now)]_vars
    /\ [][ProcessFeedCalled => ~WithinInterval(cur'.ID, now)]_vars
    /\ [][\A f \in DOMAIN feeds :
             feeds'[f].LastCheckAt # feeds[f].LastCheckAt =>
                 /\ feeds'[f].LastCheckAt = Format(now)
                 /\ pc = "update" /\ cur.ID = f]_vars

\* the fetch of a feed has failed at time 0 and last-checked was persisted;
\* a later cycle, begun before the interval has elapsed, has left the feed
\* out, and the cycle begun after it fetches the feed again
C32_Witness ==
    /\ pc = "fetch"
    /\ cur.LastCheckAt = 0
    /\ feeds[cur.ID].LastCheckAt = 0
    /\ Format(now) >= 60 * cur.IntervalMinutes

(***************************************************************************)
(* Failures of the ledger inside processFeed (checked under Spec).         *)
(***************************************************************************)
\* a store call made in this step has failed (of the store's own: ctx is
\* not cancelled)
StoreCallFails == faults' = faults + 1

\* C33: when IsSeen fails for an item, the item is neither sent nor marked
\* seen and the loop goes on with the next item; when MarkSeen fails, the
\* loop goes on with the next item just the same.  The loop over the
\* matched items ends only behind the last of them, and then
\* updateLastCheck runs: unless that very call fails (or ctx is cancelled),
\* last-checked is persisted as the time of the call.
C33_LedgerFailureSkipsOneItem ==
    /\ [][(pc = "items" /\ StoreCallFails) =>
             /\ pc' = "items" /\ idx' = idx + 1 /\ matched' = matched
             /\ sent' = sent /\ seen' = seen]_vars
    /\ [][(pc = "mark" /\ StoreCallFails) =>
             /\ pc' = "items" /\ idx' = idx + 1 /\ matched' = matched
             /\ sent' = sent /\ seen' = seen]_vars
    /\ [][(pc = "items" /\ pc' \notin {"items", "send"}) =>
             /\ idx > Len(matched)
             /\ pc' = "update"]_vars
    /\ [][(InProcessFeed /\ InProcessFeed') =>
             (idx' >= idx \/ pc = "filters")]_vars
    /\ [][(pc = "update" /\ pc' # pc /\ ~StoreCallFails /\ ~cancelled) =>
             feeds'[cur.ID].LastCheckAt = Format(now)]_vars
    /\ [](Returned /\ hist.filt = "ok" => idx = Len(matched) + 1)

\* IsSeen has failed for the first of two matched items: the second was
\* sent and marked seen, the first was not, and last-checked was set
C33_Witness ==
    /\ Returned
    /\ ~cancelled
    /\ faults = 1
    /\ Len(matched) = 2
    /\ matched[1].GUID # matched[2].GUID
    /\ NewSent = <<Notification(cur, matched[2])>>
    /\ seen = hist.seen0 \cup {<<cur.ID, matched[2].GUID>>}
    /\ <<cur.ID, matched[1].GUID>> \notin seen
    /\ LastCheckedInCycle

(***************************************************************************)
(* The regex filters in the store (checked under SpecBot).                 *)
(***************************************************************************)
\* the rows of table filters
FilterRows == UNION {{filters[f][i] : i \in DOMAIN filters[f]} : f \in DOMAIN filters}

\* the update is a command that creates a regex filter, and its pattern
\* does not compile
InvalidRegexCommand(u) ==
    /\ u.kind = "command"
    /\ u.command \in {FilterIncludeRe, FilterExcludeRe}
    /\ ~ParseFilterCommand(TrimSpace(u.args)).err
    /\ ~regexpCompiles(ParseFilterCommand(TrimSpace(u.args)).Value)

\* C34: every regex filter in the store has a pattern that ValidateRegex
\* accepts, and ValidateRegex accepts a pattern exactly when matchesFilter
\* compiles it; a command that would create a regex filter with a pattern
\* that does not compile is answered with an error ("Invalid regex" when
\* the feed is found) and leaves table filters as it is.
C34_StoredRegexCompiles ==
    /\ [](\A r \in FilterRows :
             IsRegexKind(r) => ValidateRegex(r.Value) /\ regexpCompiles(r.Value))
    /\ [](\A v \in MatchValues : ValidateRegex(v) <=> regexpCompiles(v))
    /\ [][(UpdateReceived /\ InvalidRegexCommand(update')) =>
             /\ filters' = filters
             /\ cmd'.reply \in {"invalid", "notfound", "denied"}
             /\ (ReachesHandler(update') /\ ~NamesForeignFeed(update')
                   /\ NamedFeed(update') \in DOMAIN feeds)
                   => cmd'.reply = "invalid"]_vars

\* a regex filter has been created, and a second command with a pattern
\* that does not compile has been refused
C34_Witness ==
    /\ \E r \in FilterRows : IsRegexKind(r)
    /\ InvalidRegexCommand(update)
    /\ cmd.reply = "invalid"
    /\ cmd.n = 2

(***************************************************************************)
(* What a forced check leaves behind (checked under SpecCheck: the store   *)
(* does not fail, every fetch that succeeds returns the same content).     *)
(***************************************************************************)
\* a step of handleCheck
CheckSteps == cmd' # cmd

\* the (feed, GUID) of the message that was sent last and is not marked
\* seen yet, by processFeed or by handleCheck
BeingMarked ==
    (IF pc = "mark" THEN {InHand} ELSE {})
    \cup (IF cmd.op = "check:mark"
          THEN {<<cmd.feed.ID, cmd.fresh[cmd.i].GUID>>} ELSE {})

\* C35: handleCheck marks every item it sends as seen, right after the
\* message, so that every message sent is in the seen-set once its MarkSeen
\* has run; processFeed sends nothing that was in the seen-set when it
\* began, and a forced check collects nothing that is in the seen-set and
\* answers "No new matching items" when it has collected nothing.  No step
\* of a forced check changes table feeds (last-checked stays as it is), and
\* nothing is taken out of the seen-set.
C35_ForcedCheckMarksSeen ==
    /\ [][(cmd.op = "check:send" /\ CheckSteps) =>
             /\ cmd'.op = "check:mark"
             /\ sent'[cmd.feed.ID] =
                    Append(sent[cmd.feed.ID],
                           Notification(cmd.feed, cmd.fresh[cmd.i]))]_vars
    /\ [][(cmd.op = "check:mark" /\ CheckSteps) =>
             seen' = seen \cup {<<cmd.feed.ID, cmd.fresh[cmd.i].GUID>>}]_vars
    /\ [](\A f \in DOMAIN sent : \A i \in 1..Len(sent[f]) :
             <<f, sent[f][i].GUID>> \in seen \cup BeingMarked)
    /\ [][(pc = "send" /\ pc' = "mark") => InHand \notin hist.seen0]_vars
    /\ [][(cmd.op = "check:seen" /\ cmd'.fresh # cmd.fresh) =>
             /\ <<cmd.feed.ID, cmd.items[cmd.i].GUID>> \notin seen
             /\ cmd'.fresh = Append(cmd.fresh, cmd.items[cmd.i])]_vars
    /\ [][(cmd.op = "check:seen" /\ cmd'.op = "idle") =>
             /\ cmd.fresh = <<>>
             /\ cmd'.reply = "nonew"
             /\ sent' = sent]_vars
    /\ [][CheckSteps => feeds' = feeds]_vars
    /\ [][seen \subseteq seen']_vars

\* a forced check has delivered the item of the feed and a second forced
\* check of the same content has found nothing new; then the scheduler's
\* first cycle has fetched the same item and has sent nothing
C35_Witness ==
    /\ cmd.n = 2
    /\ cmd.reply = "nonew"
    /\ Returned
    /\ hist.fetch = "ok"
    /\ Len(matched) = 1
    /\ hist.sent0 = 1
    /\ Len(sent[cur.ID]) = 1
    /\ <<cur.ID, matched[1].GUID>> \in hist.seen0

(***************************************************************************)
(* What the scheduler writes to the seen-set (checked under Spec).         *)
(***************************************************************************)
\* the seen-entries added since the last processFeed began
NewSeen == seen \ hist.seen0

\* the fetched item at position j passes the filters processFeed loaded
PassesFilters(j) ==
    Match([Title |-> rssItems[j].Title,
           Description |-> rssItems[j].Description], hist.filters)

\* C36: the seen-set changes only in the step after a message was sent,
\* by the (feed, GUID) of that message, and is never made smaller.  So the
\* entries a processFeed adds are entries of its feed for GUIDs it has sent
\* a message for, GUIDs of fetched items that pass the filters and were not
\* in the seen-set; after a failed fetch or a failed ListFilters it adds
\* none.
C36_SeenOnlyAfterSend ==
    /\ [][seen' # seen =>
             /\ pc = "mark"
             /\ seen' = seen \cup {InHand}
             /\ Len(sent[cur.ID]) > 0
             /\ sent[cur.ID][Len(sent[cur.ID])] =
                    Notification(cur, matched[idx])]_vars
    /\ [][seen \subseteq seen']_vars
    /\ [](hist.phase # "none" =>
             \A e \in NewSeen :
                 /\ e[1] = cur.ID
                 /\ \E i \in 1..Len(NewSent) : NewSent[i].GUID = e[2]
                 /\ \E j \in 1..Len(rssItems) :
                       ItemGUID(rssItems[j]) = e[2] /\ PassesFilters(j))
    /\ []((hist.phase # "none" /\ (hist.fetch = "err" \/ hist.filt = "err"))
             => NewSeen = {})

\* the feed has a filter and its fetch returned two items: the one that
\* passes was sent and marked seen, the one that is rejected was not marked
C36_Witness ==
    /\ Returned
    /\ hist.filters # <<>>
    /\ Len(rssItems) = 2
    /\ PassesFilters(1)
    /\ ~PassesFilters(2)
    /\ NewSeen = {<<cur.ID, ItemGUID(rssItems[1])>>}
    /\ <<cur.ID, ItemGUID(rssItems[2])>> \notin seen

(***************************************************************************)
(* last-checked under commands (checked under SpecCmd: the four handlers   *)
(* that call UpdateFeed run beside the scheduler).                         *)
(***************************************************************************)
\* C37: the persisted last-checked time of a feed never moves backwards
\* and never returns to NULL, whatever the interleaving of the scheduler's
\* cycles with the handlers of /rename, /interval, /pause and /resume.
C37_LastCheckNeverBackwards ==
    [][\A f \in (DOMAIN feeds) \cap (DOMAIN feeds') :
          feeds[f].LastCheckAt # NULL =>
              /\ feeds'[f].LastCheckAt # NULL
              /\ feeds'[f].LastCheckAt >= feeds[f].LastCheckAt]_vars

(***************************************************************************)
(* Rows without a feed (checked under SpecRemove).                         *)
(***************************************************************************)
\* C38: every row of seen_items and every row of filters belongs to a row
\* of feeds; so once DeleteFeed(f) has completed the store holds no
\* seen-item of f, also when a processFeed that began before the deletion
\* ends after it.
C38_NoRowsWithoutFeed ==
    /\ \A e \in seen : e[1] \in DOMAIN feeds
    /\ \A f \in DOMAIN filters : filters[f] # <<>> => f \in DOMAIN feeds

(***************************************************************************)
(* Derived GUIDs of different items (checked under SpecDelimiter).         *)
(***************************************************************************)
\* C39: two fetched items without a GUID of their own get the same derived
\* GUID only if they have the same title and the same link.
C39_DistinctPairsDistinctGUIDs ==
    \A i, j \in 1..Len(rssItems) :
        ( /\ rssItems[i].GUID = <<>>
          /\ rssItems[j].GUID = <<>>
          /\ ItemGUID(rssItems[i]) = ItemGUID(rssItems[j]) )
        => /\ rssItems[i].Title = rssItems[j].Title
           /\ rssItems[i].Link = rssItems[j].Link

FeedStarts == pc # "fetch" /\ pc' = "fetch"

\* a step that calls checkAll
CycleStarts ==
    /\ pc \in {"run", "wait"}
    /\ pc' \in {"loop", "wait"}
    /\ now' = now
    /\ cancelled' = cancelled

\* ctx was cancelled while a cycle was in progress
CancelledInCycle == cancelled /\ hist.cancelPc = "cycle"

====
